---- MODULE Spec2Model ----
(***************************************************************************)
(* A model of autodiscern/transformations.py: the Transformer pipeline     *)
(* (construction, transforms, flattening, annotations, re-keying, serial   *)
(* and worker-pool execution) and its string-level helper functions.       *)
(*                                                                         *)
(* A Python str is modelled as a sequence of one-character strings, so     *)
(* "a. \n" is <<"a", ".", " ", "\n">>.                                     *)
(***************************************************************************)
EXTENDS Integers, Sequences, FiniteSets, TLC

\* ------------------------------------------------------------------------
\* Bounds of the model
\* ------------------------------------------------------------------------

\* longest text drawn character by character for the string functions
MaxLen == 5

\* how many string-function calls are chained on one drawn text
MaxCalls == 2

\* most dicts in a drawn list of dicts
MaxDicts == 2

\* most segments in a drawn list-valued content
MaxSegs == 3

\* largest single-digit id drawn
MaxId == 2

\* most records in a drawn input mapping
MaxRecords == 2

\* most processes in a drawn pool
MaxCores == 2

\* longest plain text drawn inside the tags of a document
MaxText == 3

\* longest content drawn, in characters and markers, for the annotations
MaxTokens == 4

\* ------------------------------------------------------------------------
\* Python str primitives
\* ------------------------------------------------------------------------

\* the characters str.strip()/lstrip()/rstrip() remove by default; "NBSP"
\* stands for the no-break space '\xa0'
Whitespace == {" ", "\n", "\t", "NBSP"}

RECURSIVE lstrip(_)
lstrip(s) ==
    IF s # <<>> /\ s[1] \in Whitespace THEN lstrip(Tail(s)) ELSE s

RECURSIVE rstrip(_)
rstrip(s) ==
    IF s # <<>> /\ s[Len(s)] \in Whitespace
    THEN rstrip(SubSeq(s, 1, Len(s) - 1))
    ELSE s

strip(s) == lstrip(rstrip(s))

\* s.startswith(old)
StartsWith(s, old) ==
    Len(s) >= Len(old) /\ SubSeq(s, 1, Len(old)) = old

\* s.replace(old, new): every non-overlapping occurrence, left to right
RECURSIVE str_replace(_, _, _)
str_replace(s, old, new) ==
    IF s = <<>> THEN <<>>
    ELSE IF StartsWith(s, old)
         THEN new \o str_replace(SubSeq(s, Len(old) + 1, Len(s)), old, new)
         ELSE <<s[1]>> \o str_replace(Tail(s), old, new)

\* s.replace(old, new, 1): the first occurrence only
RECURSIVE str_replace_first(_, _, _)
str_replace_first(s, old, new) ==
    IF s = <<>> THEN <<>>
    ELSE IF StartsWith(s, old)
         THEN new \o SubSeq(s, Len(old) + 1, Len(s))
         ELSE <<s[1]>> \o str_replace_first(Tail(s), old, new)

\* old in s
RECURSIVE Contains(_, _)
Contains(s, old) ==
    IF Len(s) < Len(old) THEN FALSE
    ELSE StartsWith(s, old) \/ Contains(Tail(s), old)

\* the length of the longest prefix of s drawn from set
RECURSIVE RunLen(_, _)
RunLen(s, set) ==
    IF s = <<>> \/ s[1] \notin set THEN 0 ELSE 1 + RunLen(Tail(s), set)

\* re.sub(r"[set]{min,}", repl, s): every maximal run of at least min
\* characters of set becomes repl; shorter runs stay
RECURSIVE re_sub_run(_, _, _, _)
re_sub_run(s, set, min, repl) ==
    IF s = <<>> THEN <<>>
    ELSE LET n == RunLen(s, set) IN
         IF n >= min /\ n > 0
         THEN repl \o re_sub_run(SubSeq(s, n + 1, Len(s)), set, min, repl)
         ELSE IF n > 0
              THEN SubSeq(s, 1, n) \o re_sub_run(SubSeq(s, n + 1, Len(s)), set, min, repl)
              ELSE <<s[1]>> \o re_sub_run(Tail(s), set, min, repl)

\* re.sub(r"[mark][set]{2,}", repl, s): a mark followed by a (greedy) run of
\* two or more characters of set becomes repl; the scan resumes after the run
RECURSIVE re_sub_mark_run(_, _, _, _)
re_sub_mark_run(s, mark, set, repl) ==
    IF s = <<>> THEN <<>>
    ELSE LET n == RunLen(Tail(s), set) IN
         IF s[1] = mark /\ n >= 2
         THEN repl \o re_sub_mark_run(SubSeq(s, n + 2, Len(s)), mark, set, repl)
         ELSE <<s[1]>> \o re_sub_mark_run(Tail(s), mark, set, repl)

\* ------------------------------------------------------------------------
\* String-based helper functions of Transformer
\* ------------------------------------------------------------------------

\* the first statement of the normalizer: text.replace('?.', '?')
regex_out_question_period(text) == str_replace(text, <<"?", ".">>, <<"?">>)

\* re.sub(r' +', ' ', text)
regex_out_spaces(text) == re_sub_run(text, {" "}, 1, <<" ">>)

\* the three substitutions whose trailing run is drawn from '.' and ' '
regex_out_runs(text) ==
    LET t1 == re_sub_mark_run(text, ".", {".", " "}, <<".", " ">>)
        t2 == re_sub_mark_run(t1, "?", {".", " "}, <<"?", " ">>)
    IN  re_sub_mark_run(t2, "!", {".", " "}, <<"!", " ">>)

\* a variant that collapses to the mark and a newline, without the space
regex_out_newline_runs_no_space(text) ==
    LET t1 == re_sub_mark_run(text, ".", {".", " ", "\n"}, <<".", "\n">>)
        t2 == re_sub_mark_run(t1, "?", {".", " ", "\n"}, <<"?", "\n">>)
    IN  re_sub_mark_run(t2, "!", {".", " ", "\n"}, <<"!", "\n">>)

\* the three substitutions whose trailing run may hold a newline too
regex_out_newline_runs(text) ==
    LET t1 == re_sub_mark_run(text, ".", {".", " ", "\n"}, <<".", " ", "\n">>)
        t2 == re_sub_mark_run(t1, "?", {".", " ", "\n"}, <<"?", " ", "\n">>)
    IN  re_sub_mark_run(t2, "!", {".", " ", "\n"}, <<"!", " ", "\n">>)

\* a variant that strips both ends: text.strip() for text.lstrip()
strip_both_ends_leading_period(text) ==
    LET t == strip(text) IN
    IF Len(t) > 0 /\ t[1] = "."
    THEN strip(str_replace_first(t, <<".">>, <<>>))
    ELSE t

\* text.lstrip(), then one leading period removed and lstrip() again
strip_leading_period(text) ==
    LET t == lstrip(text) IN
    IF Len(t) > 0 /\ t[1] = "."
    THEN lstrip(str_replace_first(t, <<".">>, <<>>))
    ELSE t

\* the substitutions of the normalizer, before its leading strip
regex_out_substitutions(text) ==
    regex_out_newline_runs(
        regex_out_runs(
            regex_out_spaces(
                regex_out_question_period(text))))

regex_out_punctuation_and_white_space(text) ==
    strip_leading_period(regex_out_substitutions(text))

\* a variant that does not strip the text
condense_line_breaks_without_strip(text) ==
    LET t1 == re_sub_run(text, {" "}, 1, <<" ">>)
        t2 == [i \in 1..Len(t1) |->
                  IF t1[i] \in {"<br>", "<br/>", "<br//>"} THEN "\n" ELSE t1[i]]
    IN  re_sub_run(t2, {" ", "\n"}, 2, <<" ", "\n">>)
\* a variant that condenses a run to a newline alone, without the space
condense_line_breaks_newline_only(text) ==
    LET t1 == strip(re_sub_run(text, {" "}, 1, <<" ">>))
        t2 == [i \in 1..Len(t1) |->
                  IF t1[i] \in {"<br>", "<br/>", "<br//>"} THEN "\n" ELSE t1[i]]
    IN  re_sub_run(t2, {" ", "\n"}, 2, <<"\n">>)

\* re.sub(r' +', ' ', text).strip(), then <br>, <br/>, ... become a newline,
\* then every run of two or more ' ' and '\n' becomes ' \n'
condense_line_breaks(text) ==
    LET t1 == strip(re_sub_run(text, {" "}, 1, <<" ">>))
        t2 == [i \in 1..Len(t1) |->
                  IF t1[i] \in {"<br>", "<br/>", "<br//>"} THEN "\n" ELSE t1[i]]
    IN  re_sub_run(t2, {" ", "\n"}, 2, <<" ", "\n">>)

\* x.replace(p, replacement_char) for each p of chars_to_replace
replace_chars(x, chars_to_replace, replacement_char) ==
    [i \in 1..Len(x) |->
        IF x[i] \in chars_to_replace THEN replacement_char ELSE x[i]]

remove_newlines(x) == replace_chars(x, {"\n"}, " ")

clear_non_rendered_html(text) == str_replace(text, <<"\n">>, <<" ">>)

\* x.split(sep): the pieces between the occurrences of sep, empty ones kept
RECURSIVE str_split(_, _)
str_split(x, sep) ==
    IF \A i \in 1..Len(x) : x[i] # sep THEN <<x>>
    ELSE LET i == CHOOSE k \in 1..Len(x) :
                      x[k] = sep /\ \A j \in 1..(k - 1) : x[j] # sep
         IN  <<SubSeq(x, 1, i - 1)>> \o str_split(SubSeq(x, i + 1, Len(x)), sep)


\* ------------------------------------------------------------------------
\* HTML
\*
\* In a str that holds markup, a tag, a comment or an entity is one element
\* of the sequence ("<h1>", "</h1>", "<br/>", "<!--c-->", "&nbsp;").  The
\* parsed document is the sequence of its nodes in document order, with
\* every start tag closed by an end tag.
\* ------------------------------------------------------------------------

StartTag(name, attrs) == [type |-> "start", name |-> name, attrs |-> attrs, s |-> ""]
EndTag(name) == [type |-> "end", name |-> name, attrs |-> <<>>, s |-> ""]
VoidTag(name) == [type |-> "void", name |-> name, attrs |-> <<>>, s |-> ""]
TextNode(s) == [type |-> "text", name |-> "", attrs |-> <<>>, s |-> s]
CommentNode(s) == [type |-> "comment", name |-> "", attrs |-> <<>>, s |-> s]

\* the tag names that occur in the drawn documents
TagNames == {"h1", "h2", "h3", "h4", "p", "div", "a", "li", "tr", "em",
             "script", "style"}

\* the start tags that carry attributes: <<key, value>> pairs in order
TagsWithAttrs ==
    [tok \in {"<a href=http://www.d1.com/x>", "<a title=t href=http://m.d2.org>",
              "<a href=/local.html>", "<a name=n>", "<a href=d1>",
              "<h1 class=c>"} |->
        CASE tok = "<a href=http://www.d1.com/x>" ->
                 StartTag("a", <<(<<"href", "http://www.d1.com/x">>)>>)
          [] tok = "<a title=t href=http://m.d2.org>" ->
                 StartTag("a", <<(<<"title", "t">>), (<<"href", "http://m.d2.org">>)>>)
          [] tok = "<a href=/local.html>" ->
                 StartTag("a", <<(<<"href", "/local.html">>)>>)
          [] tok = "<a name=n>" -> StartTag("a", <<(<<"name", "n">>)>>)
          [] tok = "<a href=d1>" -> StartTag("a", <<(<<"href", "d1">>)>>)
          [] tok = "<h1 class=c>" -> StartTag("h1", <<(<<"class", "c">>)>>)]

\* the node html.parser makes of one element of the str
Markup(tok) ==
    IF tok \in DOMAIN TagsWithAttrs THEN TagsWithAttrs[tok]
    ELSE IF \E n \in TagNames : tok = "<" \o n \o ">"
    THEN StartTag(CHOOSE n \in TagNames : tok = "<" \o n \o ">", <<>>)
    ELSE IF \E n \in TagNames : tok = "</" \o n \o ">"
    THEN EndTag(CHOOSE n \in TagNames : tok = "</" \o n \o ">")
    ELSE IF tok \in {"<br>", "<br/>"} THEN VoidTag("br")
    ELSE IF tok = "<!--c-->" THEN CommentNode(tok)
    ELSE IF tok = "&nbsp;" THEN TextNode("NBSP")
    ELSE IF tok = "&amp;" THEN TextNode("&")
    ELSE TextNode(tok)

\* tldextract.extract(url).domain
DomainOf(url) ==
    CASE url \in {"http://www.d1.com/x", "http://d1.com/page", "d1"} -> "d1"
      [] url \in {"http://m.d2.org", "http://www.d2.org/page"} -> "d2"
      [] OTHER -> ""

\* the characters of a domain name
CharsOf(domain) ==
    CASE domain = "d1" -> <<"d", "1">>
      [] domain = "d2" -> <<"d", "2">>
      [] domain = "NA" -> <<"N", "A">>
      [] OTHER -> <<>>

\* the end tags the parser supplies for the elements left open, innermost first
RECURSIVE close_tags(_)
close_tags(stack) ==
    IF stack = <<>> THEN <<>>
    ELSE <<EndTag(stack[Len(stack)])>> \o close_tags(SubSeq(stack, 1, Len(stack) - 1))

\* the position in stack of the innermost open element called name, or 0
innermost_open(stack, name) ==
    LET open == {i \in 1..Len(stack) : stack[i] = name} IN
    IF open = {} THEN 0 ELSE CHOOSE i \in open : \A j \in open : j <= i

\* html.parser over the rest of the str x with the open elements in stack:
\* the content of script and style is text up to their end tag, an end tag
\* closes the innermost element of its name and all opened inside it, an end
\* tag of no open element is dropped, the end of the str closes what is open
RECURSIVE parse(_, _)
parse(x, stack) ==
    IF x = <<>> THEN close_tags(stack)
    ELSE LET node == Markup(x[1])
             raw == stack # <<>> /\ stack[Len(stack)] \in {"script", "style"}
         IN  IF raw /\ ~(node.type = "end" /\ node.name = stack[Len(stack)])
             THEN <<TextNode(x[1])>> \o parse(Tail(x), stack)
             ELSE IF node.type = "start"
             THEN <<node>> \o parse(Tail(x), Append(stack, node.name))
             ELSE IF node.type = "end"
             THEN LET i == innermost_open(stack, node.name) IN
                  IF i = 0 THEN parse(Tail(x), stack)
                  ELSE close_tags(SubSeq(stack, i, Len(stack)))
                           \o parse(Tail(x), SubSeq(stack, 1, i - 1))
             ELSE <<node>> \o parse(Tail(x), stack)

\* BeautifulSoup(x, features="html.parser")
BeautifulSoup(x) == parse(x, <<>>)

\* the position of the end tag that closes the element whose content starts
\* at soup[j], depth elements being open there
RECURSIVE matching_end(_, _, _)
matching_end(soup, j, depth) ==
    IF soup[j].type = "start" THEN matching_end(soup, j + 1, depth + 1)
    ELSE IF soup[j].type = "end"
    THEN IF depth = 1 THEN j ELSE matching_end(soup, j + 1, depth - 1)
    ELSE matching_end(soup, j + 1, depth)

\* a variant that removes the tags and leaves what they hold
remove_tags_and_contents_keeping_contents(soup, tags) ==
    SelectSeq(soup, LAMBDA node : ~(node.type \in {"start", "end", "void"}
                                       /\ node.name \in tags))
\* tag.decompose() for every tag whose name is in tags
RECURSIVE remove_tags_and_contents(_, _)
remove_tags_and_contents(soup, tags) ==
    IF soup = <<>> THEN <<>>
    ELSE IF soup[1].type = "start" /\ soup[1].name \in tags
    THEN remove_tags_and_contents(
             SubSeq(soup, matching_end(soup, 2, 1) + 1, Len(soup)), tags)
    ELSE IF soup[1].type = "void" /\ soup[1].name \in tags
    THEN remove_tags_and_contents(Tail(soup), tags)
    ELSE <<soup[1]>> \o remove_tags_and_contents(Tail(soup), tags)

\* comments, CDATA, processing instructions, declarations, doctypes extracted
remove_other_xml(soup) ==
    SelectSeq(soup, LAMBDA node : node.type # "comment")

\* the attributes of a link tag after reformat_html_link_tags: src and href
\* set to the domain of their url, every other attribute deleted
RECURSIVE link_attrs(_)
link_attrs(attrs) ==
    IF attrs = <<>> THEN <<>>
    ELSE IF attrs[1][1] \in {"src", "href"}
    THEN <<(<<attrs[1][1], DomainOf(attrs[1][2])>>)>> \o link_attrs(Tail(attrs))
    ELSE link_attrs(Tail(attrs))

reformat_html_link_tags(soup) ==
    [i \in 1..Len(soup) |->
        IF soup[i].type = "start" /\ soup[i].name = "a"
        THEN [soup[i] EXCEPT !.attrs = link_attrs(@)]
        ELSE soup[i]]

\* a variant without the sentinel: the domain as tldextract gives it
get_domain_from_link_tag_without_sentinel(tag) ==
    LET links == SelectSeq(tag.attrs, LAMBDA attr : attr[1] \in {"src", "href"}) IN
    IF links # <<>> THEN DomainOf(links[1][2]) ELSE ""
\* the domain of the first src or href of the tag, 'NA' without one
get_domain_from_link_tag(tag) ==
    LET links == SelectSeq(tag.attrs, LAMBDA attr : attr[1] \in {"src", "href"}) IN
    IF links # <<>> /\ DomainOf(links[1][2]) # ""
    THEN DomainOf(links[1][2])
    ELSE "NA"

\* the text nodes of an inserted string
TextNodes(string) == [i \in 1..Len(string) |-> TextNode(string[i])]

\* the (start, end) replacement strings of a tag in replace_html
tag_replacement(tag, tags_to_replace_with_str, default_tag_replacement_str, include_link_domains) ==
    LET r == IF tag.name \in DOMAIN tags_to_replace_with_str
             THEN tags_to_replace_with_str[tag.name]
             ELSE <<default_tag_replacement_str, default_tag_replacement_str>>
    IN  IF tag.name = "a" /\ include_link_domains
        THEN <<rstrip(r[1]) \o CharsOf(get_domain_from_link_tag(tag)) \o <<" ">>, r[2]>>
        ELSE r

\* a variant that looks at tags_to_keep before tags_to_keep_with_attr
replace_tag_keep_bare_first(node, tags_to_keep, tags_to_keep_with_attr, tags_to_replace_with_str, default_tag_replacement_str, include_link_domains) ==
    IF node.type \notin {"start", "end", "void"} THEN <<node>>
    ELSE IF node.name \in tags_to_keep THEN <<[node EXCEPT !.attrs = <<>>]>>
    ELSE IF node.name \in tags_to_keep_with_attr THEN <<node>>
    ELSE LET r == tag_replacement(node, tags_to_replace_with_str,
                                  default_tag_replacement_str, include_link_domains)
         IN  CASE node.type = "start" -> TextNodes(r[1])
               [] node.type = "end" -> TextNodes(r[2])
               [] node.type = "void" -> TextNodes(r[1] \o r[2])
\* what one node of the document becomes in the loop of replace_html: a
\* kept tag stays (without attributes unless kept with them); of any other
\* tag the start is replaced by the start string, the end by the end string
replace_tag(node, tags_to_keep, tags_to_keep_with_attr, tags_to_replace_with_str, default_tag_replacement_str, include_link_domains) ==
    IF node.type \notin {"start", "end", "void"} THEN <<node>>
    ELSE IF node.name \in tags_to_keep_with_attr THEN <<node>>
    ELSE IF node.name \in tags_to_keep THEN <<[node EXCEPT !.attrs = <<>>]>>
    ELSE LET r == tag_replacement(node, tags_to_replace_with_str,
                                  default_tag_replacement_str, include_link_domains)
         IN  CASE node.type = "start" -> TextNodes(r[1])
               [] node.type = "end" -> TextNodes(r[2])
               [] node.type = "void" -> TextNodes(r[1] \o r[2])

\* key=value for every attribute of a tag
RECURSIVE attrs_to_text(_)
attrs_to_text(attrs) ==
    IF attrs = <<>> THEN ""
    ELSE " " \o attrs[1][1] \o "=" \o attrs[1][2] \o attrs_to_text(Tail(attrs))

\* html.unescape(str(soup)): the text as it is, the tags that are left
soup_to_text_with_tags(soup) ==
    [i \in 1..Len(soup) |->
        CASE soup[i].type = "start" ->
                 "<" \o soup[i].name \o attrs_to_text(soup[i].attrs) \o ">"
          [] soup[i].type = "end" -> "</" \o soup[i].name \o ">"
          [] soup[i].type = "void" -> "<" \o soup[i].name \o "/>"
          [] OTHER -> soup[i].s]

RECURSIVE replace_tags(_, _, _, _, _, _)
replace_tags(soup, tags_to_keep, tags_to_keep_with_attr, tags_to_replace_with_str, default_tag_replacement_str, include_link_domains) ==
    IF soup = <<>> THEN <<>>
    ELSE replace_tag(soup[1], tags_to_keep, tags_to_keep_with_attr,
                     tags_to_replace_with_str, default_tag_replacement_str,
                     include_link_domains)
         \o replace_tags(Tail(soup), tags_to_keep, tags_to_keep_with_attr,
                         tags_to_replace_with_str, default_tag_replacement_str,
                         include_link_domains)

replace_html(soup, tags_to_keep, tags_to_keep_with_attr, tags_to_replace_with_str, default_tag_replacement_str, include_link_domains) ==
    soup_to_text_with_tags(
        replace_tags(soup, tags_to_keep, tags_to_keep_with_attr,
                     tags_to_replace_with_str, default_tag_replacement_str,
                     include_link_domains))

\* ------------------------------------------------------------------------
\* High level transformer functions
\* ------------------------------------------------------------------------

\* the shared tail of the three reducers
clean_text(text) ==
    condense_line_breaks(
        regex_out_punctuation_and_white_space(
            replace_chars(text, {"\t", "NBSP"}, " ")))

\* a variant that keeps no heading tag
_to_limited_html_keeping_links_only(x) ==
    LET soup == reformat_html_link_tags(
                    remove_other_xml(
                        remove_tags_and_contents(BeautifulSoup(x), {"style", "script"})))
        tags_to_replace == [tag \in {"br", "p"} |->
            CASE tag = "br" -> <<(<<".", "\n">>), (<<".", "\n">>)>>
              [] tag = "p" -> <<(<<"\n">>), (<<"\n">>)>>]
    IN  clean_text(replace_html(soup, {}, {"a"}, tags_to_replace, <<>>, FALSE))

_to_limited_html(x) ==
    LET soup == reformat_html_link_tags(
                    remove_other_xml(
                        remove_tags_and_contents(BeautifulSoup(x), {"style", "script"})))
        tags_to_replace == [tag \in {"br", "p"} |->
            CASE tag = "br" -> <<(<<".", "\n">>), (<<".", "\n">>)>>
              [] tag = "p" -> <<(<<"\n">>), (<<"\n">>)>>]
    IN  clean_text(replace_html(soup, {"h1", "h2", "h3", "h4"}, {"a"},
                                tags_to_replace, <<>>, FALSE))

_to_limited_html_plain_text(x) ==
    LET soup == remove_other_xml(
                    remove_tags_and_contents(
                        BeautifulSoup(clear_non_rendered_html(x)), {"style", "script"}))
        heading == [tag \in {"h1", "h2", "h3", "h4"} |->
            <<(<<" ", "thisisa" \o tag \o "tag", " ">>), (<<".", " ", "\n">>)>>]
        other == [tag \in {"br", "a", "li", "tr", "p", "div"} |->
            CASE tag = "br" -> <<(<<".", "\n">>), (<<".", "\n">>)>>
              [] tag = "a" -> <<(<<" ", "thisisalinktag", " ">>), (<<" ">>)>>
              [] tag = "li" -> <<(<<"\n", " ", "thisisalistitemtag", " ">>), (<<".", " ", "\n">>)>>
              [] tag = "tr" -> <<(<<"\n", " ", "thisisatablerowtag", " ">>), (<<".", " ", "\n">>)>>
              [] tag = "p" -> <<(<<"\n">>), (<<".", " ", "\n">>)>>
              [] tag = "div" -> <<(<<".", " ", "\n">>), (<<".", " ", "\n">>)>>]
    IN  clean_text(replace_html(soup, {}, {}, heading @@ other, <<>>, TRUE))

\* a variant whose headings end in a newline without the period
_to_text_without_period(x) ==
    LET soup == remove_other_xml(
                    remove_tags_and_contents(
                        BeautifulSoup(clear_non_rendered_html(x)), {"style", "script"}))
        tags_to_replace == [tag \in {"br", "h1", "h2", "h3", "h4", "p", "div"} |->
            IF tag = "br" THEN <<(<<".", "\n">>), (<<".", "\n">>)>>
            ELSE IF tag \in {"p", "div"} THEN <<(<<"\n">>), (<<".", " ", "\n">>)>>
            ELSE <<(<<"\n">>), (<<" ", "\n">>)>>]
    IN  clean_text(replace_html(soup, {}, {}, tags_to_replace, <<>>, FALSE))

_to_text(x) ==
    LET soup == remove_other_xml(
                    remove_tags_and_contents(
                        BeautifulSoup(clear_non_rendered_html(x)), {"style", "script"}))
        tags_to_replace == [tag \in {"br", "h1", "h2", "h3", "h4", "p", "div"} |->
            IF tag = "br" THEN <<(<<".", "\n">>), (<<".", "\n">>)>>
            ELSE <<(<<"\n">>), (<<".", " ", "\n">>)>>]
    IN  clean_text(replace_html(soup, {}, {}, tags_to_replace, <<>>, FALSE))

\* ------------------------------------------------------------------------
\* Records (Python dicts) and their identifiers
\*
\* A dict is a function from its keys to their values.  The value of
\* 'content' is [kind |-> "str", v |-> <<s>>] for a str s and
\* [kind |-> "list", v |-> <<s1, ..., sN>>] for a list of str.
\* ------------------------------------------------------------------------

Str(s) == [kind |-> "str", v |-> <<s>>]
List(segments) == [kind |-> "list", v |-> segments]

\* the characters of an element of a str that stands for several: a tag
\* that a reducer keeps, a marker that it inserts
Characters(tok) ==
    CASE tok = "thisisah1tag" -> <<"t","h","i","s","i","s","a","h","1","t","a","g">>
      [] tok = "thisisah2tag" -> <<"t","h","i","s","i","s","a","h","2","t","a","g">>
      [] tok = "thisisah3tag" -> <<"t","h","i","s","i","s","a","h","3","t","a","g">>
      [] tok = "thisisah4tag" -> <<"t","h","i","s","i","s","a","h","4","t","a","g">>
      [] tok = "thisisalinktag" ->
             <<"t","h","i","s","i","s","a","l","i","n","k","t","a","g">>
      [] tok = "thisisalistitemtag" ->
             <<"t","h","i","s","i","s","a","l","i","s","t","i","t","e","m","t","a","g">>
      [] tok = "thisisatablerowtag" ->
             <<"t","h","i","s","i","s","a","t","a","b","l","e","r","o","w","t","a","g">>
      [] tok \in {"<h1>", "<h2>", "<h3>", "<h4>"} ->
             <<"<", "h", CHOOSE d \in {"1", "2", "3", "4"} : tok = "<h" \o d \o ">", ">">>
      [] tok \in {"</h1>", "</h2>", "</h3>", "</h4>"} ->
             <<"<", "/", "h", CHOOSE d \in {"1", "2", "3", "4"} : tok = "</h" \o d \o ">", ">">>
      [] tok = "</a>" -> <<"<", "/", "a", ">">>
      [] tok = "<a href=d1>" -> <<"<","a"," ","h","r","e","f","=","\"","d","1","\"",">">>
      [] tok = "<a href=d2>" -> <<"<","a"," ","h","r","e","f","=","\"","d","2","\"",">">>
      [] tok = "<a href=>" -> <<"<","a"," ","h","r","e","f","=","\"","\"",">">>
      [] tok = "<a>" -> <<"<", "a", ">">>
      [] OTHER -> <<tok>>

RECURSIVE characters(_)
characters(s) ==
    IF s = <<>> THEN <<>> ELSE Characters(s[1]) \o characters(Tail(s))

\* what iterating over a content yields: the segments of a list, the
\* characters of a str
Elements(c) ==
    IF c.kind = "list" THEN c.v
    ELSE [i \in 1..Len(characters(c.v[1])) |-> <<characters(c.v[1])[i]>>]

\* str(n) of an int, as "{}".format(n) writes it
Digits == <<"0", "1", "2", "3", "4", "5", "6", "7", "8", "9">>

RECURSIVE format_nat(_)
format_nat(n) ==
    IF n < 10 THEN <<Digits[n + 1]>>
    ELSE Append(format_nat(n \div 10), Digits[(n % 10) + 1])

format_int(n) == IF n < 0 THEN <<"-">> \o format_nat(-n) ELSE format_nat(n)

\* identifiers: an int, a str, or no identifier because d[id_key] raised
IntKey(n) == [t |-> "int", n |-> n, s |-> <<>>]
StrKey(s) == [t |-> "str", n |-> 0, s |-> s]
KeyError == [t |-> "KeyError", n |-> 0, s |-> <<>>]

\* a variant that prefers entity_id when both keys are present
get_id_entity_first(d) ==
    LET id_key == IF "entity_id" \in DOMAIN d THEN "entity_id" ELSE "id" IN
    IF id_key \notin DOMAIN d THEN KeyError
    ELSE IF "sub_id" \in DOMAIN d
         THEN StrKey(format_int(d[id_key]) \o <<"-">> \o format_int(d["sub_id"]))
         ELSE IntKey(d[id_key])

\* a variant that leaves sub_id out of the identifier
get_id_without_sub_id(d) ==
    LET id_key == IF "id" \notin DOMAIN d /\ "entity_id" \in DOMAIN d
                  THEN "entity_id" ELSE "id" IN
    IF id_key \notin DOMAIN d THEN KeyError ELSE IntKey(d[id_key])

get_id(d) ==
    LET id_key == IF "id" \notin DOMAIN d /\ "entity_id" \in DOMAIN d
                  THEN "entity_id" ELSE "id" IN
    IF id_key \notin DOMAIN d THEN KeyError
    ELSE IF "sub_id" \in DOMAIN d
         THEN StrKey(format_int(d[id_key]) \o <<"-">> \o format_int(d["sub_id"]))
         ELSE IntKey(d[id_key])

\* the result of a call: the value returned, or the exception raised
Returned(value) == [raised |-> "", value |-> value]
Raised(exception) == [raised |-> exception, value |-> <<>>]

\* output_dict after the loop over input_list: a later dict replaces an
\* earlier one with the same identifier
RECURSIVE dict_of_dicts(_)
dict_of_dicts(input_list) ==
    IF input_list = <<>> THEN <<>>
    ELSE LET d == input_list[Len(input_list)] IN
         (get_id(d) :> d) @@ dict_of_dicts(SubSeq(input_list, 1, Len(input_list) - 1))

convert_list_of_dicts_to_dict_of_dicts(input_list) ==
    IF \E i \in 1..Len(input_list) : get_id(input_list[i]) = KeyError
    THEN Raised("KeyError")
    ELSE Returned(dict_of_dicts(input_list))

\* child_dict of _flatten_text_dicts: the parent's keys but 'content', then
\* 'content' and 'sub_id' set
child_dict(parent_dict, i, num) ==
    [key \in (DOMAIN parent_dict \ {"content"}) \cup {"content", "sub_id"} |->
        IF key = "content" THEN Str(i)
        ELSE IF key = "sub_id" THEN num
        ELSE parent_dict[key]]

\* a variant numbering the children from one
children_from_one(parent_dict) ==
    [k \in 1..Len(Elements(parent_dict["content"])) |->
        child_dict(parent_dict, Elements(parent_dict["content"])[k], k)]

\* the children of one parent: enumerate() counts from zero
children(parent_dict) ==
    [k \in 1..Len(Elements(parent_dict["content"])) |->
        child_dict(parent_dict, Elements(parent_dict["content"])[k], k - 1)]

RECURSIVE _flatten_text_dicts(_)
_flatten_text_dicts(list_of_dicts) ==
    IF list_of_dicts = <<>> THEN <<>>
    ELSE children(list_of_dicts[1]) \o _flatten_text_dicts(Tail(list_of_dicts))

\* ------------------------------------------------------------------------
\* High level segmentation functions
\* ------------------------------------------------------------------------

SentenceEnd == {".", "?", "!"}

\* WordTokenizer().tokenize(x): the words between whitespace, a sentence
\* mark being a word of its own
RECURSIVE word_tokenize(_)
word_tokenize(x) ==
    LET t == lstrip(x)
        word == {n \in 1..Len(t) :
                    /\ \A i \in 1..n : t[i] \notin Whitespace \cup SentenceEnd
                    /\ n = Len(t) \/ t[n + 1] \in Whitespace \cup SentenceEnd}
        n == IF word = {} THEN 1 ELSE CHOOSE k \in word : TRUE
    IN  IF t = <<>> THEN <<>>
        ELSE <<SubSeq(t, 1, n)>> \o word_tokenize(SubSeq(t, n + 1, Len(t)))

\* PunktSentenceTokenizer().tokenize(x): a sentence ends at a sentence mark
\* that is followed by whitespace
RECURSIVE sent_tokenize(_)
sent_tokenize(x) ==
    LET ends == {i \in 1..(Len(x) - 1) : x[i] \in SentenceEnd /\ x[i + 1] \in Whitespace}
        i == CHOOSE k \in ends : \A j \in ends : k <= j
    IN  IF x = <<>> THEN <<>>
        ELSE IF ends = {} THEN <<x>>
        ELSE <<SubSeq(x, 1, i)>> \o sent_tokenize(lstrip(SubSeq(x, i + 1, Len(x))))

_to_words(x) == word_tokenize(x)

_to_sentences(x) ==
    LET sents == sent_tokenize(x) IN [k \in 1..Len(sents) |-> strip(sents[k])]

\* a variant that leaves the empty segments out
_to_paragraphs_without_empty(x) ==
    SelectSeq(str_split(condense_line_breaks(x), "\n"), LAMBDA segment : segment # <<>>)
_to_paragraphs(x) == str_split(condense_line_breaks(x), "\n")

\* ------------------------------------------------------------------------
\* Annotation functions
\* ------------------------------------------------------------------------

\* a variant that looks for the link marker first
PlainTextTags_link_first ==
    <<"thisisalinktag", "thisisah1tag", "thisisah2tag", "thisisah3tag",
      "thisisah4tag", "thisisalistitemtag", "thisisatablerowtag">>

\* the keys of the dict tags of _annotate_and_clean_html, in its order
PlainTextTags ==
    <<"thisisah1tag", "thisisah2tag", "thisisah3tag", "thisisah4tag",
      "thisisalinktag", "thisisalistitemtag", "thisisatablerowtag">>

\* tags[plaintexttag]
HtmlTagOf(plaintexttag) ==
    CASE plaintexttag = "thisisah1tag" -> "h1"
      [] plaintexttag = "thisisah2tag" -> "h2"
      [] plaintexttag = "thisisah3tag" -> "h3"
      [] plaintexttag = "thisisah4tag" -> "h4"
      [] plaintexttag = "thisisalinktag" -> "a"
      [] plaintexttag = "thisisalistitemtag" -> "li"
      [] plaintexttag = "thisisatablerowtag" -> "tr"

\* (cleaned_token, domain) of a token that holds the link marker
_retrieve_domain_from_plaintexttag(token) ==
    LET plaintexttag == "thisisalinktag"
        tag_pos == CHOOSE i \in 1..Len(token) :
                       token[i] = plaintexttag /\ \A j \in 1..(i - 1) : token[j] # plaintexttag
        tag_and_domain == SubSeq(token, tag_pos, Len(token))
    IN  <<str_replace(token, tag_and_domain, <<>>),
          str_replace(tag_and_domain, <<plaintexttag>>, <<>>)>>

\* a variant that puts each domain before those found earlier
RECURSIVE without_link_tags_newest_first(_)
without_link_tags_newest_first(tokens) ==
    IF tokens = <<>> THEN [text_without_tags |-> <<>>, domains |-> <<>>]
    ELSE LET rest == without_link_tags_newest_first(Tail(tokens))
             token == tokens[1]
             r == _retrieve_domain_from_plaintexttag(token)
         IN  IF Contains(token, <<"thisisalinktag">>)
             THEN [text_without_tags |->
                       (IF r[1] # <<>> THEN r[1] \o <<" ">> ELSE <<>>) \o rest.text_without_tags,
                   domains |-> rest.domains \o <<r[2]>>]
             ELSE [text_without_tags |->
                       (IF token # <<>> THEN token \o <<" ">> ELSE <<>>) \o rest.text_without_tags,
                   domains |-> rest.domains]

\* the loop over the tokens of the link branch: the text without the markers
\* and the domains found, in order
RECURSIVE without_link_tags(_)
without_link_tags(tokens) ==
    IF tokens = <<>> THEN [text_without_tags |-> <<>>, domains |-> <<>>]
    ELSE LET rest == without_link_tags(Tail(tokens))
             token == tokens[1]
             r == _retrieve_domain_from_plaintexttag(token)
         IN  IF Contains(token, <<"thisisalinktag">>)
             THEN [text_without_tags |->
                       (IF r[1] # <<>> THEN r[1] \o <<" ">> ELSE <<>>) \o rest.text_without_tags,
                   domains |-> <<r[2]>> \o rest.domains]
             ELSE [text_without_tags |->
                       (IF token # <<>> THEN token \o <<" ">> ELSE <<>>) \o rest.text_without_tags,
                   domains |-> rest.domains]

\* plaintexttag in d['content']: a substring of a str, an element of a list
in_content(plaintexttag, content) ==
    IF content.kind = "str" THEN Contains(content.v[1], <<plaintexttag>>)
    ELSE \E k \in 1..Len(content.v) : content.v[k] = <<plaintexttag>>

\* a variant that records a heading, list item or table row and leaves its
\* marker in the content
annotate_tag_leaving_markers(st, plaintexttag) ==
    IF st.raised # "" \/ ~in_content(plaintexttag, st.content) THEN st
    ELSE IF st.content.kind # "str" THEN [st EXCEPT !.raised = "AttributeError"]
    ELSE IF plaintexttag = "thisisalinktag"
    THEN LET r == without_link_tags(str_split(st.content.v[1], " ")) IN
         [st EXCEPT !.content = Str(rstrip(r.text_without_tags)),
                    !.found_tags = Append(@, HtmlTagOf(plaintexttag)),
                    !.domains = @ \o r.domains]
    ELSE [st EXCEPT !.found_tags = Append(@, HtmlTagOf(plaintexttag))]
\* one pass of the loop over tags: a list content has neither split nor
\* replace
annotate_tag(st, plaintexttag) ==
    IF st.raised # "" \/ ~in_content(plaintexttag, st.content) THEN st
    ELSE IF st.content.kind # "str" THEN [st EXCEPT !.raised = "AttributeError"]
    ELSE IF plaintexttag = "thisisalinktag"
    THEN LET r == without_link_tags(str_split(st.content.v[1], " ")) IN
         [st EXCEPT !.content = Str(rstrip(r.text_without_tags)),
                    !.found_tags = Append(@, HtmlTagOf(plaintexttag)),
                    !.domains = @ \o r.domains]
    ELSE [st EXCEPT !.content = Str(strip(str_replace(@.v[1], <<plaintexttag>>, <<" ">>))),
                    !.found_tags = Append(@, HtmlTagOf(plaintexttag))]

RECURSIVE annotate_tags(_, _)
annotate_tags(st, plaintexttags) ==
    IF plaintexttags = <<>> THEN st
    ELSE annotate_tags(annotate_tag(st, plaintexttags[1]), Tail(plaintexttags))

\* d with 'content' cleaned of the markers and 'html_tags' and 'domains' set
_annotate_and_clean_html(d) ==
    IF "content" \notin DOMAIN d THEN Raised("KeyError")
    ELSE LET st == annotate_tags([content |-> d["content"], found_tags |-> <<>>,
                                  domains |-> <<>>, raised |-> ""], PlainTextTags)
         IN  IF st.raised # "" THEN Raised(st.raised)
             ELSE Returned(("content" :> st.content) @@ ("html_tags" :> st.found_tags)
                               @@ ("domains" :> st.domains) @@ d)

\* a variant that takes a link without a domain for an external one
_annotate_internal_external_links_na_external(d) ==
    IF "url" \notin DOMAIN d THEN Returned(d)
    ELSE IF "domains" \notin DOMAIN d THEN Raised("KeyError")
    ELSE LET source_domain == CharsOf(DomainOf(d["url"][1]))
             link_type == [k \in 1..Len(d["domains"]) |->
                 IF d["domains"][k] = source_domain THEN "internal" ELSE "external"]
         IN  Returned(("link_type" :> link_type) @@ d)

\* a variant that reads d['url'] without looking for the key first
_annotate_internal_external_links_requiring_url(d) ==
    IF "url" \notin DOMAIN d \/ "domains" \notin DOMAIN d THEN Raised("KeyError")
    ELSE LET source_domain == CharsOf(DomainOf(d["url"][1]))
             link_type == [k \in 1..Len(d["domains"]) |->
                 IF d["domains"][k] = <<"N", "A">> THEN "internal"
                 ELSE IF d["domains"][k] = source_domain THEN "internal"
                 ELSE "external"]
         IN  Returned(("link_type" :> link_type) @@ d)

\* d with 'link_type' set from 'domains' and the domain of 'url'; d as it is
\* without a 'url'
_annotate_internal_external_links(d) ==
    IF "url" \notin DOMAIN d THEN Returned(d)
    ELSE IF "domains" \notin DOMAIN d THEN Raised("KeyError")
    ELSE LET source_domain == CharsOf(DomainOf(d["url"][1]))
             link_type == [k \in 1..Len(d["domains"]) |->
                 IF d["domains"][k] = <<"N", "A">> THEN "internal"
                 ELSE IF d["domains"][k] = source_domain THEN "internal"
                 ELSE "external"]
         IN  Returned(("link_type" :> link_type) @@ d)

\* ------------------------------------------------------------------------
\* Transformer: construction and the two workers
\* ------------------------------------------------------------------------

WordAliases == {"w", "word", "words"}
SentenceAliases == {"s", "sent", "sents", "sentence", "sentences"}
ParagraphAliases == {"p", "para", "paragraph", "paragraphs"}

\* a variant that takes an unrecognised segment_into for no segmentation
segmentation_lenient(segment_into) ==
    CASE segment_into \in WordAliases ->
             [raised |-> "", transforms |-> <<"_to_words">>, segmentation_type |-> "words"]
      [] segment_into \in SentenceAliases ->
             [raised |-> "", transforms |-> <<"_to_sentences">>, segmentation_type |-> "sentences"]
      [] segment_into \in ParagraphAliases ->
             [raised |-> "", transforms |-> <<"_to_paragraphs">>, segmentation_type |-> "paragraphs"]
      [] OTHER -> [raised |-> "", transforms |-> <<>>, segmentation_type |-> ""]

\* the segmentation transform to use; "None" stands for None
segmentation(segment_into) ==
    CASE segment_into = "None" ->
             [raised |-> "", transforms |-> <<>>, segmentation_type |-> ""]
      [] segment_into \in WordAliases ->
             [raised |-> "", transforms |-> <<"_to_words">>, segmentation_type |-> "words"]
      [] segment_into \in SentenceAliases ->
             [raised |-> "", transforms |-> <<"_to_sentences">>, segmentation_type |-> "sentences"]
      [] segment_into \in ParagraphAliases ->
             [raised |-> "", transforms |-> <<"_to_paragraphs">>, segmentation_type |-> "paragraphs"]
      [] OTHER -> [raised |-> "ValueError", transforms |-> <<>>, segmentation_type |-> ""]

\* a variant that looks at html_to_plain_text before leave_some_html
__init___plain_text_first(kwargs) ==
    LET reducer == IF kwargs.html_to_plain_text THEN "_to_limited_html_plain_text"
                   ELSE IF kwargs.leave_some_html THEN "_to_limited_html"
                   ELSE "_to_text"
        segmenter == segmentation(kwargs.segment_into)
    IN  IF segmenter.raised # "" THEN Raised(segmenter.raised)
        ELSE Returned(
            [transforms |-> <<reducer>> \o segmenter.transforms
                 \o (IF kwargs.remove_newlines
                     THEN <<"remove_newlines", "regex_out_punctuation_and_white_space">>
                     ELSE <<>>),
             annotations |-> IF kwargs.annotate_html
                             THEN <<"_annotate_and_clean_html", "_annotate_internal_external_links">>
                             ELSE <<>>,
             parallelism |-> kwargs.parallelism,
             num_cores |-> kwargs.num_cores,
             flatten |-> kwargs.flatten,
             segmentation_type |-> segmenter.segmentation_type])
\* the Transformer object made by __init__ from its keyword arguments, or
\* the exception it raises; the transforms are
\* the reducer, then the segmenter, then remove_newlines and the normalizer
__init__(kwargs) ==
    LET reducer == IF kwargs.leave_some_html
                   THEN IF kwargs.html_to_plain_text THEN "_to_limited_html_plain_text"
                        ELSE "_to_limited_html"
                   ELSE "_to_text"
        segmenter == segmentation(kwargs.segment_into)
    IN  IF segmenter.raised # "" THEN Raised(segmenter.raised)
        ELSE Returned(
            [transforms |-> <<reducer>> \o segmenter.transforms
                 \o (IF kwargs.remove_newlines
                     THEN <<"remove_newlines", "regex_out_punctuation_and_white_space">>
                     ELSE <<>>),
             annotations |-> IF kwargs.annotate_html
                             THEN <<"_annotate_and_clean_html", "_annotate_internal_external_links">>
                             ELSE <<>>,
             parallelism |-> kwargs.parallelism,
             num_cores |-> kwargs.num_cores,
             flatten |-> kwargs.flatten,
             segmentation_type |-> segmenter.segmentation_type])

\* f(content) for a transform f: the string methods and the parser do not
\* take a list
call_transform(f, content) ==
    IF content.kind # "str"
    THEN Raised(IF f \in {"_to_limited_html", "_to_words", "_to_sentences", "_to_paragraphs"}
                THEN "TypeError" ELSE "AttributeError")
    ELSE LET x == content.v[1] IN
         CASE f = "_to_limited_html" -> Returned(Str(_to_limited_html(x)))
           [] f = "_to_limited_html_plain_text" -> Returned(Str(_to_limited_html_plain_text(x)))
           [] f = "_to_text" -> Returned(Str(_to_text(x)))
           [] f = "_to_words" -> Returned(List(_to_words(x)))
           [] f = "_to_sentences" -> Returned(List(_to_sentences(x)))
           [] f = "_to_paragraphs" -> Returned(List(_to_paragraphs(x)))
           [] f = "remove_newlines" -> Returned(Str(remove_newlines(x)))
           [] f = "regex_out_punctuation_and_white_space" ->
                  Returned(Str(regex_out_punctuation_and_white_space(x)))

\* f(d) for an annotation f
call_annotation(f, d) ==
    CASE f = "_annotate_and_clean_html" -> _annotate_and_clean_html(d)
      [] f = "_annotate_internal_external_links" -> _annotate_internal_external_links(d)

\* what a call into the pipeline comes to: the exception raised ("" for
\* none), the value returned, and the functions it called, in order
Outcome(raised, value, called) == [raised |-> raised, value |-> value, called |-> called]

\* a variant that runs the transforms from the last to the first
RECURSIVE _apply_transforms_last_first(_, _)
_apply_transforms_last_first(transforms, content) ==
    IF transforms = <<>> THEN Outcome("", content, <<>>)
    ELSE LET f == transforms[Len(transforms)]
             r == call_transform(f, content)
             rest == _apply_transforms_last_first(
                         SubSeq(transforms, 1, Len(transforms) - 1), r.value)
         IN  IF r.raised # "" THEN Outcome(r.raised, <<>>, <<f>>)
             ELSE [rest EXCEPT !.called = <<f>> \o @]

\* for f in self.transforms: content = f(content)
RECURSIVE _apply_transforms_to_str(_, _)
_apply_transforms_to_str(transforms, content) ==
    IF transforms = <<>> THEN Outcome("", content, <<>>)
    ELSE LET f == transforms[1]
             r == call_transform(f, content)
             rest == _apply_transforms_to_str(Tail(transforms), r.value)
         IN  IF r.raised # "" THEN Outcome(r.raised, <<>>, <<f>>)
             ELSE [rest EXCEPT !.called = <<f>> \o @]

\* a new dict with the keys of obj and the transformed 'content'
_transform_worker(self, obj) ==
    IF "content" \notin DOMAIN obj THEN Outcome("KeyError", <<>>, <<>>)
    ELSE LET r == _apply_transforms_to_str(self.transforms, obj["content"]) IN
         IF r.raised # "" THEN r
         ELSE [r EXCEPT !.value = ("content" :> r.value) @@ obj]

\* for f in self.annotations: content = f(content)
RECURSIVE _apply_annotations_to_dict(_, _)
_apply_annotations_to_dict(annotations, content) ==
    IF annotations = <<>> THEN Outcome("", content, <<>>)
    ELSE LET f == annotations[1]
             r == call_annotation(f, content)
             rest == _apply_annotations_to_dict(Tail(annotations), r.value)
         IN  IF r.raised # "" THEN Outcome(r.raised, <<>>, <<f>>)
             ELSE [rest EXCEPT !.called = <<f>> \o @]

_annotation_worker(self, obj) == _apply_annotations_to_dict(self.annotations, obj)

\* the worker _apply_transforms hands to apply_in_parallel or apply_in_series
_apply_transforms(self) == "_transform_worker"

\* a variant that hands the transform worker to the pool
_apply_annotations_transform_in_parallel(self) ==
    IF self.parallelism THEN "_transform_worker" ELSE "_annotation_worker"

\* the worker _apply_annotations hands to apply_in_parallel or apply_in_series
_apply_annotations(self) == "_annotation_worker"

\* worker(obj)
call_worker(self, worker, obj) ==
    IF worker = "_transform_worker" THEN _transform_worker(self, obj)
    ELSE _annotation_worker(self, obj)

\* a variant in which every worker assigns to the dict it is passed
argument_after_in_place(worker, obj, out) ==
    IF out.raised = "" THEN out.ret ELSE obj

\* what a worker leaves of the dict it is passed: _transform_worker builds a
\* new dict and assigns nothing to obj; the annotations assign to the dict
\* they are passed and return it, so what _annotation_worker returns is its
\* argument as it left it
argument_after(worker, obj, out) ==
    IF worker = "_annotation_worker" /\ out.raised = "" THEN out.ret ELSE obj
\* a variant that stores a result in the first free slot
pool_set_first_free(results, i, value) ==
    LET free == CHOOSE k \in 1..Len(results) :
                    results[k] = <<>> /\ \A j \in 1..(k - 1) : results[j] # <<>>
    IN  [results EXCEPT ![free] = value]

\* pool.map: the result of the i-th task goes to the i-th place of the list
pool_set(results, i, value) == [results EXCEPT ![i] = value]

\* ------------------------------------------------------------------------
\* State
\* ------------------------------------------------------------------------

VARIABLES
    text,           \* the str a chain of string-function calls works on
    list_of_dicts,  \* the list of dicts a chain of record-function calls works on
    calls,          \* the calls made on either: <<[fn, arg, ret], ...>>
    kwargs,         \* the keyword arguments the Transformers are constructed with
    inputs,         \* the records of the input mapping, in its order
    transformer,    \* the Transformer object: transforms, annotations, ...
    pc,             \* where the caller is: "new", "constructed", inside apply, ...
    input_list,     \* the list apply_in_series or apply_in_parallel was called with
    tasks,          \* per element of input_list: waiting, running, done; its worker's outcome
    results,        \* the results list of apply_in_series, of pool.map
    error,          \* the exception of the first task of pool.map that failed
    pools,          \* every mp.Pool created: "open" or "joined"
    result,         \* the local variable result of apply
    stages,         \* the steps of apply that have returned: <<[fn, result], ...>>
    runs            \* the calls of apply that are over: <<[parallelism, raised, value], ...>>

pipeline_vars ==
    <<kwargs, inputs, transformer, pc, input_list, tasks, results, error, pools,
      result, stages, runs>>

vars == <<text, list_of_dicts, calls, pipeline_vars>>

\* no Transformer yet
NoTransformer ==
    [transforms |-> <<>>, annotations |-> <<>>, parallelism |-> FALSE,
     num_cores |-> 0, flatten |-> FALSE, segmentation_type |-> ""]

\* the defaults of the keyword arguments of __init__
DefaultKwargs ==
    [leave_some_html |-> FALSE, html_to_plain_text |-> FALSE, segment_into |-> "None",
     remove_newlines |-> TRUE, flatten |-> FALSE, annotate_html |-> FALSE,
     parallelism |-> FALSE, num_cores |-> 8]

\* nothing constructed, nothing applied
PipelineNew ==
    /\ transformer = NoTransformer
    /\ pc = "new"
    /\ input_list = <<>>
    /\ tasks = <<>>
    /\ results = <<>>
    /\ error = ""
    /\ pools = <<>>
    /\ result = <<>>
    /\ stages = <<>>
    /\ runs = <<>>

\* ------------------------------------------------------------------------
\* The string functions, called on every short text
\* ------------------------------------------------------------------------

\* the characters the drawn texts are made of
Alphabet == {"a", ".", "?", "!", " ", "\n", "\t"}

\* all texts of length at most n over Alphabet
RECURSIVE TextsUpTo(_)
TextsUpTo(n) ==
    IF n = 0 THEN {<<>>}
    ELSE LET shorter == TextsUpTo(n - 1) IN
         shorter \cup {Append(t, c) : t \in {u \in shorter : Len(u) = n - 1}, c \in Alphabet}

\* the inputs of the normalizer's unit tests (tests/test_transformations.py)
TestTexts == {
    <<"t","e","x","t"," ","t","e","x","t",".",".","\n","."," ","t","e","x","t">>,
    <<"t","e","x","t",".">>,
    <<"t","e","x","t"," "," ","t","e","x","t",".">>,
    <<"t","e","x","t","."," ","t","e","x","t">>,
    <<"t","e","x","t"," ","t","e","x","t",".",".",".">> }

TextInit ==
    /\ text \in TextsUpTo(MaxLen) \cup TestTexts
    /\ calls = <<>>
    /\ list_of_dicts = <<>>
    /\ kwargs = DefaultKwargs
    /\ inputs = <<>>
    /\ PipelineNew

\* text = regex_out_punctuation_and_white_space(text)
CallNormalizer ==
    /\ Len(calls) < MaxCalls
    /\ text' = regex_out_punctuation_and_white_space(text)
    /\ calls' = Append(calls, [fn |-> "regex_out_punctuation_and_white_space",
                               arg |-> text, ret |-> text'])
    /\ UNCHANGED <<list_of_dicts, pipeline_vars>>

TextNext == CallNormalizer

SpecText == TextInit /\ [][TextNext]_vars

\* ------------------------------------------------------------------------
\* The record functions, called on every small list of dicts
\* ------------------------------------------------------------------------

Ids == (0..MaxId) \cup {12}

\* a list content of n segments, each different from the others
Segments(n) == [k \in 1..n |-> <<"s", Digits[k + 1]>>]

\* contents after the transforms: a list of 0..MaxSegs segments, a list with
\* a repeated segment, a str
Contents ==
    {List(Segments(n)) : n \in 0..MaxSegs}
        \cup {List(<<<<"s">>, <<"s">>>>), Str(<<"a", "b">>)}

\* the values drawn for a key
ValuesOf(key) ==
    CASE key \in {"id", "entity_id", "sub_id"} -> Ids
      [] key = "content" -> Contents
      [] key = "url" -> {<<"u">>}

\* every dict with exactly the given keys
RECURSIVE DictsOver(_)
DictsOver(keys) ==
    IF keys = {} THEN {<<>>}
    ELSE LET key == CHOOSE k \in keys : TRUE IN
         {(key :> v) @@ d : v \in ValuesOf(key), d \in DictsOver(keys \ {key})}

\* transformed records: an id, a content, and sometimes a url or an old sub_id
TransformedDicts ==
    {d \in UNION {DictsOver({"id", "content"} \cup extra) :
                     extra \in {{}, {"url"}, {"url", "sub_id"}}} :
        /\ d["id"] \in 0..1
        /\ "sub_id" \in DOMAIN d => d["sub_id"] = 12}

\* dicts with every combination of id, entity_id and sub_id
IdentifiedDicts ==
    UNION {DictsOver(present) : present \in SUBSET {"id", "entity_id", "sub_id"}}

RECURSIVE ListsUpTo(_, _)
ListsUpTo(set, n) ==
    IF n = 0 THEN {<<>>}
    ELSE LET shorter == ListsUpTo(set, n - 1) IN
         shorter \cup {Append(l, d) : l \in {u \in shorter : Len(u) = n - 1}, d \in set}

RecordsInit ==
    /\ list_of_dicts \in ListsUpTo(TransformedDicts, MaxDicts)
                            \cup {<<d>> : d \in IdentifiedDicts}
    /\ calls = <<>>
    /\ text = <<>>
    /\ kwargs = DefaultKwargs
    /\ inputs = <<>>
    /\ PipelineNew

\* get_id(d) for a dict of the list
CallGetId ==
    /\ calls = <<>>
    /\ \E i \in 1..Len(list_of_dicts) :
          calls' = Append(calls, [fn |-> "get_id", arg |-> list_of_dicts[i],
                                  ret |-> get_id(list_of_dicts[i])])
    /\ UNCHANGED <<list_of_dicts, text, pipeline_vars>>

\* list_of_dicts = _flatten_text_dicts(list_of_dicts): apply flattens the
\* transformed records once
CallFlatten ==
    /\ calls = <<>>
    /\ \A i \in 1..Len(list_of_dicts) : "content" \in DOMAIN list_of_dicts[i]
    /\ list_of_dicts' = _flatten_text_dicts(list_of_dicts)
    /\ calls' = Append(calls, [fn |-> "_flatten_text_dicts", arg |-> list_of_dicts,
                               ret |-> list_of_dicts'])
    /\ UNCHANGED <<text, pipeline_vars>>

\* convert_list_of_dicts_to_dict_of_dicts(list_of_dicts): apply re-keys the
\* records last, flattened or not
CallConvert ==
    /\ \A c \in 1..Len(calls) : calls[c].fn = "_flatten_text_dicts"
    /\ calls' = Append(calls, [fn |-> "convert_list_of_dicts_to_dict_of_dicts",
                               arg |-> list_of_dicts,
                               ret |-> convert_list_of_dicts_to_dict_of_dicts(list_of_dicts)])
    /\ UNCHANGED <<list_of_dicts, text, pipeline_vars>>

RecordsNext == CallGetId \/ CallFlatten \/ CallConvert

SpecRecords == RecordsInit /\ [][RecordsNext]_vars

\* ------------------------------------------------------------------------
\* The line-break condensation and the reducers, called on every short
\* text and on small documents
\* ------------------------------------------------------------------------

\* all texts of length at most n over alphabet
TextsOver(alphabet, n) ==
    UNION {[1..k -> alphabet] : k \in 0..n}

\* the characters and line-break remnants condense_line_breaks distinguishes
CondenseAlphabet == {"a", " ", "\n", "\t", "<br>", "<br/>"}

\* the inputs of the unit tests of condense_line_breaks
CondenseTestTexts == {
    <<"t","e","x","t","\n","\n","t","e","x","t">>,
    <<"t","e","x","t","\n">>,
    <<"t","e","x","t","<br>","t","e","x","t">>,
    <<"t","e","x","t","<br>","<br>","t","e","x","t">>,
    <<"t","e","x","t","<br/>","t","e","x","t">>,
    <<"t","e","x","t","<br>","\n","t","e","x","t">> }

\* the characters of the plain texts drawn inside tags
PlainAlphabet == {"a", ".", "?", "!", " ", "\n"}

\* "I am a Header"
Header == <<"I"," ","a","m"," ","a"," ","H","e","a","d","e","r">>

PlainTexts == TextsOver(PlainAlphabet, MaxText) \cup {Header}

\* <h1>T</h1>, ..., <h4>T</h4>
HeadingDocs ==
    {<<"<" \o h \o ">">> \o T \o <<"</" \o h \o ">">> :
        h \in {"h1", "h2", "h3", "h4"}, T \in PlainTexts}

\* a heading, with or without an attribute, inside a div or an em
WrappedDocs ==
    {<<"<" \o w \o ">", open>> \o T \o <<"</h1>", "</" \o w \o ">">> :
        w \in {"div", "em"}, open \in {"<h1>", "<h1 class=c>"}, T \in PlainTexts}

\* the small documents: text and tags, with and without attributes
TagDocs ==
    TextsOver({"a", "<h1 class=c>", "</h1>", "<a href=d1>", "</a>", "<em>", "</em>",
               "<p>", "<br>"}, MaxText)

\* documents with script and style elements: at the top, in a div, in a p in
\* a div; closed, left open, empty, one inside the other; text before,
\* inside and after them
ScriptDocs ==
    {before \o body \o after :
        before \in {<<>>, <<"<div>">>, <<"<div>", "<p>">>},
        body \in TextsOver({"a", "<script>", "</script>", "<style>", "</style>", "<em>"},
                           MaxText),
        after \in {<<>>, <<"b">>}}

\* documents with links: to two domains, to a file, without a href; text,
\* punctuation and other tags around them; in a script
LinkDocs ==
    TextsOver({"<a href=http://www.d1.com/x>", "<a title=t href=http://m.d2.org>",
               "<a href=/local.html>", "<a name=n>", "</a>", "c", ".", "\n",
               "<p>", "<li>", "<script>", "</script>"}, MaxText)
        \cup {<<"<h1>", "c", "</h1>", "<p>", "c", " ", "<a href=http://www.d1.com/x>", "c",
                "</a>", ".", "</p>", "<li>", "<a href=/local.html>", "c", "</a>", "</li>",
                "<script>", "<a name=n>", "</script>", "<a title=t href=http://m.d2.org>",
                "c", "</a>", "c">>}

\* the texts of line breaks and the documents with elements
LineBreakTexts == TextsOver(CondenseAlphabet, MaxLen) \cup CondenseTestTexts

ElementDocs == HeadingDocs \cup WrappedDocs \cup TagDocs \cup ScriptDocs

MarkupInit ==
    /\ text \in LineBreakTexts \cup ElementDocs \cup LinkDocs
    /\ calls = <<>>
    /\ list_of_dicts = <<>>
    /\ kwargs = DefaultKwargs
    /\ inputs = <<>>
    /\ PipelineNew

\* condense_line_breaks(text), on the texts of line breaks and the headings
CallCondenseLineBreaks ==
    /\ calls = <<>>
    /\ (text \in LineBreakTexts \/ text \in HeadingDocs \/ text \in WrappedDocs)
    /\ calls' = Append(calls, [fn |-> "condense_line_breaks", arg |-> text,
                               ret |-> condense_line_breaks(text)])
    /\ UNCHANGED <<text, list_of_dicts, pipeline_vars>>

\* _to_text(text), on the texts of line breaks and the documents with elements
CallToText ==
    /\ calls = <<>>
    /\ (text \in LineBreakTexts \/ text \in ElementDocs)
    /\ calls' = Append(calls, [fn |-> "_to_text", arg |-> text, ret |-> _to_text(text)])
    /\ UNCHANGED <<text, list_of_dicts, pipeline_vars>>

\* _to_limited_html(text), on the same
CallToLimitedHtml ==
    /\ calls = <<>>
    /\ (text \in LineBreakTexts \/ text \in ElementDocs)
    /\ calls' = Append(calls, [fn |-> "_to_limited_html", arg |-> text,
                               ret |-> _to_limited_html(text)])
    /\ UNCHANGED <<text, list_of_dicts, pipeline_vars>>

\* the arguments replace_html is called with: those of _to_limited_html,
\* those of _to_text, and keep sets that overlap each other and the
\* replacements
ReplaceHtmlArgs == {
    [tags_to_keep |-> {"h1", "h2", "h3", "h4"}, tags_to_keep_with_attr |-> {"a"},
     tags_to_replace_with_str |->
         [tag \in {"br", "p"} |->
             IF tag = "br" THEN <<(<<".", "\n">>), (<<".", "\n">>)>>
             ELSE <<(<<"\n">>), (<<"\n">>)>>]],
    [tags_to_keep |-> {}, tags_to_keep_with_attr |-> {},
     tags_to_replace_with_str |->
         [tag \in {"br", "h1", "h2", "h3", "h4", "p", "div"} |->
             IF tag = "br" THEN <<(<<".", "\n">>), (<<".", "\n">>)>>
             ELSE <<(<<"\n">>), (<<".", " ", "\n">>)>>]],
    [tags_to_keep |-> {"h1", "a"}, tags_to_keep_with_attr |-> {"h1"},
     tags_to_replace_with_str |->
         [tag \in {"h1", "a", "p"} |-> <<(<<"\n">>), (<<".", " ", "\n">>)>>]] }

\* replace_html(BeautifulSoup(text), ...) with a default replacement of '',
\* on the small documents and those with script and style
CallReplaceHtml ==
    /\ calls = <<>>
    /\ (text \in TagDocs \/ text \in ScriptDocs)
    /\ \E args \in ReplaceHtmlArgs :
          calls' = Append(calls,
              [fn |-> "replace_html", arg |-> text, soup |-> BeautifulSoup(text),
               args |-> args,
               ret |-> replace_html(BeautifulSoup(text), args.tags_to_keep,
                                    args.tags_to_keep_with_attr,
                                    args.tags_to_replace_with_str, <<>>, FALSE)])
    /\ UNCHANGED <<text, list_of_dicts, pipeline_vars>>

\* _to_limited_html_plain_text(text), on the documents with elements
CallToLimitedHtmlPlainText ==
    /\ calls = <<>>
    /\ text \in ElementDocs
    /\ calls' = Append(calls, [fn |-> "_to_limited_html_plain_text", arg |-> text,
                               ret |-> _to_limited_html_plain_text(text)])
    /\ UNCHANGED <<text, list_of_dicts, pipeline_vars>>

\* the two workers of a Transformer made with leave_some_html,
\* html_to_plain_text and annotate_html, with and without remove_newlines,
\* on a record whose content is a document with links: the transforms, then
\* the annotations on what they return
CallWorkers ==
    /\ calls = <<>>
    /\ text \in LinkDocs
    /\ \E newlines \in BOOLEAN :
          LET self == __init__([DefaultKwargs EXCEPT !.leave_some_html = TRUE,
                                                     !.html_to_plain_text = TRUE,
                                                     !.annotate_html = TRUE,
                                                     !.remove_newlines = newlines]).value
              transformed == _transform_worker(self, ("id" :> 0) @@ ("content" :> Str(text)))
          IN  calls' = Append(calls,
                  [fn |-> "_annotation_worker", arg |-> text, self |-> self,
                   transformed |-> transformed.value,
                   ret |-> _annotation_worker(self, transformed.value)])
    /\ UNCHANGED <<text, list_of_dicts, pipeline_vars>>

\* _to_paragraphs(text), on the texts of line breaks
CallToParagraphs ==
    /\ calls = <<>>
    /\ text \in LineBreakTexts
    /\ calls' = Append(calls, [fn |-> "_to_paragraphs", arg |-> text,
                               ret |-> _to_paragraphs(text)])
    /\ UNCHANGED <<text, list_of_dicts, pipeline_vars>>

MarkupNext ==
    \/ CallCondenseLineBreaks
    \/ CallToText
    \/ CallToLimitedHtml
    \/ CallToLimitedHtmlPlainText
    \/ CallToParagraphs
    \/ CallReplaceHtml
    \/ CallWorkers

SpecMarkup == MarkupInit /\ [][MarkupNext]_vars

\* ------------------------------------------------------------------------
\* The annotation functions, called on every record with a short content
\* ------------------------------------------------------------------------

\* the characters and markers of the drawn contents
AnnotationAlphabet ==
    {"d", "1", " ", "\n", "thisisalinktag", "thisisah1tag", "thisisah2tag",
     "thisisalistitemtag"}

\* longer contents, as _to_limited_html_plain_text leaves them: links to the
\* same domain twice, to a file and to another domain; headings, list items
\* and table rows; all seven markers
AnnotationExamples == {
    <<"d"," ","thisisalinktag","d","1"," ","1"," ","thisisalinktag","d","1"," ","d">>,
    <<"thisisalinktag","d","1"," ","d"," ","thisisalinktag","N","A"," ","1"," ",
      "thisisalinktag","d","2"," ","d">>,
    <<"thisisah2tag"," ","d","."," ","\n","thisisatablerowtag"," ","1","."," ","\n",
      "thisisah1tag"," ","d","."," ","\n","thisisalistitemtag"," ","1","."," ","\n",
      "thisisah4tag"," ","d","."," ","\n","thisisah3tag"," ","1","."," ","\n",
      "thisisah1tag"," ","d",".">>,
    <<"thisisah1tag"," ","d"," ","thisisah2tag"," ","thisisah3tag"," ","thisisah4tag"," ",
      "thisisalinktag","d","1"," ","1","\n"," ","thisisalistitemtag"," ","d","\n"," ",
      "thisisatablerowtag"," ","1">> }

\* the urls of the drawn records
Urls == {<<"http://d1.com/page">>, <<"http://www.d2.org/page">>, <<"/local.html">>}

\* the entries of the drawn domains lists: two domains, the sentinel, nothing
DomainsDrawn == {<<"d", "1">>, <<"d", "2">>, <<"N", "A">>, <<>>}

\* the drawn records: transformed records with every short content and with
\* every short arrangement of the seven markers, without and with a url, and
\* annotated records with every short list of domains
AnnotationInputs ==
    LET bare == {("id" :> 0) @@ ("content" :> Str(c)) :
                    c \in TextsOver(AnnotationAlphabet, MaxTokens) \cup AnnotationExamples
                              \cup TextsOver({PlainTextTags[k] : k \in 1..7} \cup {" "},
                                             MaxTokens)}
        annotated == {("id" :> 0) @@ ("content" :> Str(<<"d">>)) @@ ("html_tags" :> <<"a">>)
                          @@ ("domains" :> ds) : ds \in ListsUpTo(DomainsDrawn, MaxSegs)}
    IN  bare \cup {("url" :> <<"http://d1.com/page">>) @@ d : d \in bare}
             \cup annotated \cup {("url" :> u) @@ d : u \in Urls, d \in annotated}

AnnotationsInit ==
    /\ list_of_dicts \in {<<d>> : d \in AnnotationInputs}
    /\ calls = <<>>
    /\ text = <<>>
    /\ kwargs = DefaultKwargs
    /\ inputs = <<>>
    /\ PipelineNew

\* f(d) for the dict d of the list: f changes d in place and returns it, so
\* the list holds the dict as f left it; d['link_type'] = [] is set before
\* d['domains'] raises
CallAnnotation(f) ==
    /\ \A c \in 1..Len(calls) :
           calls[c].fn = "_annotate_and_clean_html" /\ f # calls[c].fn
    /\ LET r == call_annotation(f, list_of_dicts[1]) IN
       /\ calls' = Append(calls, [fn |-> f, arg |-> list_of_dicts[1], ret |-> r])
       /\ list_of_dicts' =
              IF r.raised = "" THEN <<r.value>>
              ELSE IF f = "_annotate_internal_external_links"
                      /\ "url" \in DOMAIN list_of_dicts[1]
              THEN <<("link_type" :> <<>>) @@ list_of_dicts[1]>>
              ELSE list_of_dicts
    /\ UNCHANGED <<text, pipeline_vars>>

AnnotationsNext ==
    \/ CallAnnotation("_annotate_and_clean_html")
    \/ CallAnnotation("_annotate_internal_external_links")

SpecAnnotations == AnnotationsInit /\ [][AnnotationsNext]_vars

\* ------------------------------------------------------------------------
\* The pipeline: a Transformer constructed and applied in series, then one
\* constructed from the same arguments and applied in parallel, on the same
\* input mapping
\* ------------------------------------------------------------------------

\* the documents of the drawn records
DocA == <<"<h1>", "a", "</h1>", "b", ".", " ", "<a href=http://www.d1.com/x>", "c", "</a>">>
DocB == <<"a", "<br>", "b", "\n", "<script>", "x", "</script>">>
DocC == <<"e">>

\* the drawn records: two of them share an id, one has no content
InputRecords ==
    { ("id" :> 0) @@ ("content" :> Str(DocA)) @@ ("url" :> <<"http://d1.com/page">>),
      ("id" :> 1) @@ ("content" :> Str(DocB)),
      ("id" :> 0) @@ ("content" :> Str(DocC)),
      ("id" :> 2) @@ ("url" :> <<"http://d1.com/page">>) }

\* the drawn records whose content is at most one character
OneCharacterRecords ==
    {d \in InputRecords : "content" \in DOMAIN d => Len(d["content"].v[1]) <= 1}

\* the lists of at most n different elements of set
ListsOfDistinct(set, n) ==
    {l \in ListsUpTo(set, n) : \A i, j \in 1..Len(l) : i # j => l[i] # l[j]}

\* the values of segment_into that name no segmentation
InvalidSegmentInto == {"line", "Sentences", ""}

\* the drawn keyword arguments: every combination of the options with one
\* alias of each segmentation, and every value of segment_into with the
\* defaults; parallelism is set at each construction
KwargsDrawn ==
    [leave_some_html : BOOLEAN, html_to_plain_text : BOOLEAN,
     segment_into : {"None", "words", "sentences", "paragraphs"},
     remove_newlines : BOOLEAN, flatten : BOOLEAN, annotate_html : BOOLEAN,
     parallelism : {FALSE}, num_cores : {MaxCores}]
    \cup {[DefaultKwargs EXCEPT !.segment_into = v] :
             v \in WordAliases \cup SentenceAliases \cup ParagraphAliases
                      \cup InvalidSegmentInto}

\* the drawn input mappings: a str is flattened into its characters, so
\* without a segmentation the flattened records are short
InputsDrawn(kw) ==
    IF kw.flatten /\ kw.segment_into = "None"
    THEN ListsOfDistinct(OneCharacterRecords, MaxRecords)
    ELSE ListsOfDistinct(InputRecords, MaxRecords)

PipelineInit ==
    /\ text = <<>>
    /\ list_of_dicts = <<>>
    /\ calls = <<>>
    /\ kwargs \in KwargsDrawn
    /\ inputs \in InputsDrawn(kwargs)
    /\ PipelineNew

\* the values of pc at which a construction or a call of apply is over
Finished == {"ValueError", "returned", "raised"}

\* the values of pc inside apply_in_series or apply_in_parallel
Mapping == {"_apply_transforms", "_apply_annotations"}

Run(parallelism, raised, value) ==
    [parallelism |-> parallelism, raised |-> raised, value |-> value]

Waiting == [state |-> "waiting", raised |-> "", ret |-> <<>>, called |-> <<>>]
Running == [Waiting EXCEPT !.state = "running"]
Done(out) == [state |-> "done", raised |-> out.raised, ret |-> out.value, called |-> out.called]

\* the worker of the step of apply that is under way
Worker ==
    IF pc = "_apply_transforms" THEN _apply_transforms(transformer)
    ELSE _apply_annotations(transformer)

\* Transformer(..., parallelism=parallelism): in series first, then in parallel
Construct(parallelism) ==
    /\ pc \in {"new"} \cup Finished
    /\ Len(runs) = (IF parallelism THEN 1 ELSE 0)
    /\ LET r == __init__([kwargs EXCEPT !.parallelism = parallelism]) IN
       IF r.raised # ""
       THEN /\ pc' = "ValueError"
            /\ transformer' = NoTransformer
            /\ runs' = Append(runs, Run(parallelism, r.raised, <<>>))
       ELSE /\ pc' = "constructed"
            /\ transformer' = r.value
            /\ runs' = runs
    /\ input_list' = <<>>
    /\ tasks' = <<>>
    /\ results' = <<>>
    /\ error' = ""
    /\ result' = <<>>
    /\ stages' = <<>>
    /\ UNCHANGED <<kwargs, inputs, pools, text, list_of_dicts, calls>>

\* apply_in_series or apply_in_parallel is called with list: results = [],
\* or a pool is created and the list is mapped
MapBegins(list) ==
    /\ input_list' = list
    /\ tasks' = [i \in 1..Len(list) |-> Waiting]
    /\ error' = ""
    /\ IF transformer.parallelism
       THEN /\ results' = [i \in 1..Len(list) |-> <<>>]
            /\ pools' = Append(pools, "open")
       ELSE /\ results' = <<>>
            /\ pools' = pools

\* apply_in_series or apply_in_parallel returns results
MapReturns ==
    /\ result' = results
    /\ stages' = Append(stages, [fn |-> pc, result |-> results])
    /\ pc' = IF pc = "_apply_transforms" THEN "transformed" ELSE "annotated"

\* apply(inputs) up to the call of apply_in_series or apply_in_parallel by
\* _apply_transforms
Apply ==
    /\ pc = "constructed"
    /\ pc' = "_apply_transforms"
    /\ MapBegins(inputs)
    /\ UNCHANGED <<kwargs, inputs, transformer, result, stages, runs,
                   text, list_of_dicts, calls>>

\* one turn of the loop of apply_in_series: results.append(worker(i)); an
\* exception of the worker ends apply; the worker is passed the dict of the
\* list itself, which is then as the worker left it.  In _apply_transforms
\* the dicts of the list are the input records themselves
\* (input_list = [inputs[id] for id in inputs]); in _apply_annotations they
\* are the dicts that _transform_worker or _flatten_text_dicts made.
ApplyInSeriesStep ==
    /\ pc \in Mapping
    /\ ~transformer.parallelism
    /\ Len(results) < Len(input_list)
    /\ tasks' = [tasks EXCEPT ![Len(results) + 1] =
                    Done(call_worker(transformer, Worker, input_list[Len(results) + 1]))]
    /\ LET i == Len(results) + 1
           out == tasks'[i]
       IN  /\ input_list' = [input_list EXCEPT ![i] = argument_after(Worker, @, out)]
           /\ inputs' = IF pc = "_apply_transforms" THEN input_list' ELSE inputs
           /\ IF out.raised # ""
              THEN /\ pc' = "raised"
                   /\ runs' = Append(runs, Run(FALSE, out.raised, <<>>))
                   /\ UNCHANGED <<results, result>>
              ELSE /\ results' = Append(results, out.ret)
                   /\ result' = IF Worker = "_annotation_worker" THEN input_list' ELSE result
                   /\ UNCHANGED <<pc, runs>>
    /\ UNCHANGED <<kwargs, transformer, error, pools, stages,
                   text, list_of_dicts, calls>>

\* the loop of apply_in_series is over
ApplyInSeriesReturn ==
    /\ pc \in Mapping
    /\ ~transformer.parallelism
    /\ Len(results) = Len(input_list)
    /\ MapReturns
    /\ UNCHANGED <<kwargs, inputs, transformer, input_list, tasks, results, error,
                   pools, runs, text, list_of_dicts, calls>>

\* a free process of the pool takes the next task of the map
PoolStart(i) ==
    /\ pc \in Mapping
    /\ transformer.parallelism
    /\ tasks[i].state = "waiting"
    /\ \A j \in 1..(i - 1) : tasks[j].state # "waiting"
    /\ Cardinality({j \in 1..Len(tasks) : tasks[j].state = "running"}) < transformer.num_cores
    /\ tasks' = [tasks EXCEPT ![i] = Running]
    /\ UNCHANGED <<kwargs, inputs, transformer, pc, input_list, results, error, pools,
                   result, stages, runs, text, list_of_dicts, calls>>

\* a process of the pool has run the worker on its copy of the i-th element:
\* the value goes to the results, the first exception is kept
PoolFinish(i) ==
    /\ pc \in Mapping
    /\ transformer.parallelism
    /\ tasks[i].state = "running"
    /\ tasks' = [tasks EXCEPT ![i] = Done(call_worker(transformer, Worker, input_list[i]))]
    /\ LET out == tasks'[i] IN
       IF out.raised # ""
       THEN /\ error' = IF error = "" THEN out.raised ELSE error
            /\ results' = results
       ELSE /\ results' = pool_set(results, i, out.ret)
            /\ error' = error
    /\ UNCHANGED <<kwargs, inputs, transformer, pc, input_list, pools,
                   result, stages, runs, text, list_of_dicts, calls>>

\* a variant that returns the results of the tasks that did not fail
ApplyInParallelReturn_skipping_failures ==
    /\ pc \in Mapping
    /\ transformer.parallelism
    /\ \A i \in 1..Len(tasks) : tasks[i].state = "done"
    /\ pools' = [pools EXCEPT ![Len(pools)] = "joined"]
    /\ result' = SelectSeq(results, LAMBDA r : r # <<>>)
    /\ stages' = Append(stages, [fn |-> pc, result |-> result'])
    /\ pc' = IF pc = "_apply_transforms" THEN "transformed" ELSE "annotated"
    /\ UNCHANGED <<kwargs, inputs, transformer, input_list, tasks, results, error,
                   runs, text, list_of_dicts, calls>>

\* every task is done: pool.map raises the exception kept, and the pool is
\* left as it is; or it returns, the pool is closed and joined, and
\* apply_in_parallel returns results
ApplyInParallelReturn ==
    /\ pc \in Mapping
    /\ transformer.parallelism
    /\ \A i \in 1..Len(tasks) : tasks[i].state = "done"
    /\ IF error # ""
       THEN /\ pc' = "raised"
            /\ runs' = Append(runs, Run(TRUE, error, <<>>))
            /\ UNCHANGED <<pools, result, stages>>
       ELSE /\ pools' = [pools EXCEPT ![Len(pools)] = "joined"]
            /\ MapReturns
            /\ runs' = runs
    /\ UNCHANGED <<kwargs, inputs, transformer, input_list, tasks, results, error,
                   text, list_of_dicts, calls>>

\* apply after _apply_transforms: result is flattened if self.flatten, and
\* _apply_annotations calls apply_in_series or apply_in_parallel with it
ApplyFlatten ==
    /\ pc = "transformed"
    /\ LET flattened == IF transformer.flatten THEN _flatten_text_dicts(result)
                        ELSE result
       IN  /\ result' = flattened
           /\ stages' = IF transformer.flatten
                        THEN Append(stages, [fn |-> "_flatten_text_dicts", result |-> flattened])
                        ELSE stages
           /\ MapBegins(flattened)
    /\ pc' = "_apply_annotations"
    /\ UNCHANGED <<kwargs, inputs, transformer, runs, text, list_of_dicts, calls>>

\* apply after _apply_annotations: the records are re-keyed and returned
ApplyReturn ==
    /\ pc = "annotated"
    /\ LET back_to_dict == convert_list_of_dicts_to_dict_of_dicts(result) IN
       /\ pc' = IF back_to_dict.raised # "" THEN "raised" ELSE "returned"
       /\ stages' = IF back_to_dict.raised # "" THEN stages
                    ELSE Append(stages, [fn |-> "convert_list_of_dicts_to_dict_of_dicts",
                                         result |-> back_to_dict.value])
       /\ runs' = Append(runs, Run(transformer.parallelism, back_to_dict.raised,
                                   back_to_dict.value))
    /\ UNCHANGED <<kwargs, inputs, transformer, input_list, tasks, results, error,
                   pools, result, text, list_of_dicts, calls>>

PipelineNext ==
    \/ \E parallelism \in BOOLEAN : Construct(parallelism)
    \/ Apply
    \/ ApplyInSeriesStep
    \/ ApplyInSeriesReturn
    \/ \E i \in 1..Len(tasks) : PoolStart(i)
    \/ \E i \in 1..Len(tasks) : PoolFinish(i)
    \/ ApplyInParallelReturn
    \/ ApplyFlatten
    \/ ApplyReturn

Spec == PipelineInit /\ [][PipelineNext]_vars

\* ------------------------------------------------------------------------
\* Properties of the pipeline (checked under Spec)
\* ------------------------------------------------------------------------

IsPrefix(p, s) == Len(p) <= Len(s) /\ SubSeq(s, 1, Len(p)) = p

\* the steps of apply that have returned, by name
StageNames == [k \in 1..Len(stages) |-> stages[k].fn]

\* the steps of apply up to the annotations, in the order of the code
StagesBeforeAnnotations ==
    <<"_apply_transforms">>
        \o (IF transformer.flatten THEN <<"_flatten_text_dicts">> ELSE <<>>)

\* whether tasks holds the tasks of _apply_annotations (or of _apply_transforms)
TasksAreAnnotations ==
    \/ pc \in {"_apply_annotations", "annotated", "returned"}
    \/ pc = "raised" /\ stages # <<>>

RecognisedSegmentInto ==
    {"None"} \cup WordAliases \cup SentenceAliases \cup ParagraphAliases

\* C7: a construction with a segment_into that is neither None nor an alias
\* of words, sentences or paragraphs ends in an error with no record touched
\* and no step of apply begun; a construction with a recognised value never
\* ends in an error
C7_InvalidSegmentIntoFailsConstruction ==
    /\ kwargs.segment_into \notin RecognisedSegmentInto /\ pc # "new" =>
           /\ pc = "ValueError"
           /\ transformer = NoTransformer
           /\ input_list = <<>> /\ tasks = <<>> /\ stages = <<>> /\ pools = <<>>
           /\ \A k \in 1..Len(runs) : runs[k].raised = "ValueError"
    /\ kwargs.segment_into \in RecognisedSegmentInto =>
           /\ pc # "ValueError"
           /\ \A k \in 1..Len(runs) : runs[k].raised # "ValueError"

\* both constructions, in series and in parallel, of an unrecognised
\* segment_into have failed, records waiting
C7_Witness ==
    /\ kwargs.segment_into = "Sentences"
    /\ pc = "ValueError"
    /\ Len(runs) = 2
    /\ Len(inputs) = 2

\* C3: in parallel mode the result of the worker for the i-th element of the
\* list is at the i-th place of the results, while the tasks finish in any
\* order and when apply_in_parallel has returned
C3_PoolResultsInInputOrder ==
    transformer.parallelism =>
        /\ pc \in Mapping =>
               \A i \in 1..Len(tasks) :
                   tasks[i].state = "done" /\ tasks[i].raised = "" =>
                       results[i] = tasks[i].ret
        /\ pc \in {"transformed", "annotated"} =>
               /\ Len(results) = Len(input_list)
               /\ \A i \in 1..Len(results) :
                      /\ results[i] = tasks[i].ret
                      /\ results[i] = call_worker(transformer,
                             IF pc = "transformed" THEN "_transform_worker"
                             ELSE "_annotation_worker", input_list[i]).value

\* the second task has finished while the first one is still running
C3_Witness ==
    /\ transformer.parallelism
    /\ pc \in Mapping
    /\ Len(tasks) >= 2
    /\ tasks[1].state = "running"
    /\ tasks[2].state = "done"
    /\ tasks[2].raised = ""
    /\ results[2] = tasks[2].ret
    /\ input_list[1] # input_list[2]

\* C2: the steps of apply return in the order transforms, flattening (when
\* enabled), annotations, re-keying; a transform worker calls the transforms
\* in the order of the list, up to one that raises; an annotation worker
\* calls the annotations in the order of the list; no annotation task starts
\* before the transforms of every record and the flattening have returned
C2_TransformsThenFlattenThenAnnotations ==
    /\ IsPrefix(StageNames,
                StagesBeforeAnnotations
                    \o <<"_apply_annotations", "convert_list_of_dicts_to_dict_of_dicts">>)
    /\ \A i \in 1..Len(tasks) :
           tasks[i].state = "done" =>
               LET functions == IF TasksAreAnnotations THEN transformer.annotations
                                ELSE transformer.transforms
               IN  /\ IsPrefix(tasks[i].called, functions)
                   /\ tasks[i].raised = "" => tasks[i].called = functions
    /\ TasksAreAnnotations /\ (\E i \in 1..Len(tasks) : tasks[i].state # "waiting") =>
           /\ IsPrefix(StagesBeforeAnnotations, StageNames)
           /\ Len(stages[1].result) = Len(inputs)

\* apply has returned after a reducer and a segmenter, the flattening and
\* two annotations
C2_Witness ==
    /\ pc = "returned"
    /\ Len(transformer.transforms) = 2
    /\ transformer.segmentation_type = "sentences"
    /\ Len(transformer.annotations) = 2
    /\ transformer.flatten
    /\ Len(StageNames) = 4
    /\ Len(inputs) = 2
    /\ \E i \in 1..Len(tasks) : tasks[i].called = transformer.annotations

\* the input records all have an id, no two the same
DistinctIds ==
    /\ \A i \in 1..Len(inputs) : "id" \in DOMAIN inputs[i]
    /\ \A i, j \in 1..Len(inputs) : i # j => inputs[i]["id"] # inputs[j]["id"]

RECURSIVE SumOfSegments(_)
SumOfSegments(list) ==
    IF list = <<>> THEN 0
    ELSE Len(Elements(list[1]["content"])) + SumOfSegments(Tail(list))

\* C6: when apply returns for input records with pairwise distinct ids, the
\* records of the working set have pairwise distinct identifiers, and the
\* mapping returned has one entry per record of the working set: one per
\* input record without flattening, one per segment of the transformed
\* records with flattening
C6_DistinctIdsGiveDistinctIdentifiers ==
    pc = "returned" /\ DistinctIds =>
        LET back_to_dict == stages[Len(stages)].result IN
        /\ \A i, j \in 1..Len(result) :
               i # j => get_id(result[i]) # get_id(result[j])
        /\ Cardinality(DOMAIN back_to_dict) = Len(result)
        /\ ~transformer.flatten => Cardinality(DOMAIN back_to_dict) = Len(inputs)
        /\ transformer.flatten =>
               Cardinality(DOMAIN back_to_dict) = SumOfSegments(stages[1].result)

\* two records with different ids have been segmented, flattened into more
\* than two records and re-keyed
C6_Witness ==
    /\ pc = "returned"
    /\ DistinctIds
    /\ transformer.flatten
    /\ Len(inputs) = 2
    /\ Len(result) > 2
    /\ Cardinality(DOMAIN stages[Len(stages)].result) = Len(result)

AnnotationInput(i) == stages[Len(StagesBeforeAnnotations)].result[i]

BothAnnotations == <<"_annotate_and_clean_html", "_annotate_internal_external_links">>

\* C14: the link annotation of a record without a url raises nothing and
\* returns the record as it received it, with no link_type; the other
\* records of the batch are annotated and apply returns them all.
C14_NoUrlPassesThrough ==
    (TasksAreAnnotations /\ transformer.annotations = BothAnnotations) =>
        /\ \A i \in 1..Len(tasks) :
               ( /\ tasks[i].state = "done"
                 /\ tasks[i].called = BothAnnotations
                 /\ "url" \notin DOMAIN AnnotationInput(i) ) =>
                   /\ tasks[i].raised = ""
                   /\ "link_type" \notin DOMAIN tasks[i].ret
                   /\ tasks[i].ret = _annotate_and_clean_html(AnnotationInput(i)).value
        /\ pc \in {"annotated", "returned"} =>
               /\ Len(result) = Len(stages[Len(StagesBeforeAnnotations)].result)
               /\ \A i \in 1..Len(result) :
                      /\ "html_tags" \in DOMAIN result[i]
                      /\ "link_type" \in DOMAIN result[i] <=> "url" \in DOMAIN result[i]

\* apply has returned a record without a url, annotated but for link_type,
\* and after it a record with a url and its link_type
C14_Witness ==
    /\ pc = "returned"
    /\ transformer.annotations = BothAnnotations
    /\ Len(result) = 2
    /\ "url" \notin DOMAIN result[1]
    /\ "link_type" \notin DOMAIN result[1]
    /\ "domains" \in DOMAIN result[1]
    /\ tasks[1].called = BothAnnotations
    /\ "link_type" \in DOMAIN result[2]
    /\ result[2]["link_type"] # <<>>

\* C18: the workers leave the records passed to them unchanged: while and
\* after the transforms run, the list they were given holds the input
\* records as they were; while and after the annotations run, the list they
\* were given holds the records as the step before returned them.
C18_RecordsNotMutated ==
    /\ pc \in {"_apply_transforms", "transformed"} => input_list = inputs
    /\ TasksAreAnnotations =>
           input_list = stages[Len(StagesBeforeAnnotations)].result

\* the transform worker alone: no turn of the loop over the input records
\* changes a record of the list
TransformWorkerLeavesRecords ==
    [][pc = "_apply_transforms" => input_list' = input_list]_vars

\* C19: in parallel mode, when the worker has raised for a record, apply
\* does not go on to its next step and returns no mapping: it raises the
\* error of one of the failed tasks, the first to fail, whatever the other
\* records gave.
C19_PoolFailureFailsApply ==
    transformer.parallelism =>
        /\ pc \in {"transformed", "annotated", "returned"} =>
               \A i \in 1..Len(tasks) : tasks[i].raised = ""
        /\ (pc \in Mapping /\ \E i \in 1..Len(tasks) : tasks[i].raised # "") =>
               /\ error # ""
               /\ \E i \in 1..Len(tasks) : tasks[i].raised = error
        /\ pc = "raised" =>
               /\ runs[Len(runs)].parallelism
               /\ runs[Len(runs)].raised = error
               /\ \E i \in 1..Len(tasks) : tasks[i].raised = error
               /\ runs[Len(runs)].value = <<>>
               /\ \A k \in 1..Len(stages) :
                      stages[k].fn # "convert_list_of_dicts_to_dict_of_dicts"

\* apply in parallel has raised the KeyError of the second record's
\* transform although the first record was transformed
C19_Witness ==
    /\ transformer.parallelism
    /\ pc = "raised"
    /\ Len(tasks) = 2
    /\ tasks[1].state = "done" /\ tasks[1].raised = ""
    /\ results[1] # <<>>
    /\ tasks[2].raised = "KeyError"
    /\ runs[Len(runs)].raised = "KeyError"
    /\ runs[Len(runs)].value = <<>>

Segmenters == {"_to_words", "_to_sentences", "_to_paragraphs"}

\* C20: when segment_into is set, the segmentation transform is the last
\* element of the Transformer's transform list, and no transform is handed
\* a list of segments (which the string transforms answer with an
\* AttributeError or a TypeError).
C20_SegmentationLast ==
    transformer.segmentation_type # "" =>
        /\ transformer.transforms[Len(transformer.transforms)] \in Segmenters
        /\ ~TasksAreAnnotations =>
               \A i \in 1..Len(tasks) :
                   tasks[i].raised \notin {"AttributeError", "TypeError"}

\* a Transformer has been constructed from kwargs
Constructed == transformer # NoTransformer

\* the tasks of the transform step that are done on a record with a content
TransformTasksDone ==
    {i \in 1..Len(tasks) :
        /\ pc = "_apply_transforms"
        /\ tasks[i].state = "done"
        /\ "content" \in DOMAIN input_list[i]}

\* the first transform of the list is f, and the first that a worker calls
FirstTransformIs(f) ==
    /\ transformer.transforms # <<>>
    /\ transformer.transforms[1] = f
    /\ \A i \in TransformTasksDone : tasks[i].called # <<>> /\ tasks[i].called[1] = f

\* C22 as stated: whenever html_to_plain_text is enabled, whatever the other
\* options, the first transform is the plain-text marker reducer.
C22_PlainTextOptionSelectsMarkerReducer ==
    (Constructed /\ kwargs.html_to_plain_text)
        => FirstTransformIs("_to_limited_html_plain_text")

\* C22 as amended: the first transform is the plain-text marker reducer
\* whenever leave_some_html and html_to_plain_text are both enabled, whatever
\* the other options; with leave_some_html disabled it is _to_text whether
\* html_to_plain_text is enabled or not, and with leave_some_html alone it is
\* _to_limited_html.
C22_BothOptionsSelectMarkerReducer ==
    Constructed =>
        /\ (kwargs.leave_some_html /\ kwargs.html_to_plain_text)
               => FirstTransformIs("_to_limited_html_plain_text")
        /\ (kwargs.leave_some_html /\ ~kwargs.html_to_plain_text)
               => FirstTransformIs("_to_limited_html")
        /\ ~kwargs.leave_some_html => FirstTransformIs("_to_text")

\* a worker has called the marker reducer first, for a Transformer made with
\* both options
C22_Witness ==
    /\ kwargs.leave_some_html /\ kwargs.html_to_plain_text
    /\ \E i \in TransformTasksDone :
           tasks[i].called # <<>> /\ tasks[i].called[1] = "_to_limited_html_plain_text"
\* C25: every pool that apply_in_parallel has created is closed and joined
\* when its call is over, whether it returned or raised.
C25_PoolsJoinedAtExit ==
    pc \notin Mapping => \A p \in 1..Len(pools) : pools[p] = "joined"

\* the pools of the calls that returned are closed and joined
PoolsJoinedAtReturn ==
    (pc \notin Mapping /\ error = "") => \A p \in 1..Len(pools) : pools[p] = "joined"
\* the fields the annotations and the flattening add
AnnotationFields == {"sub_id", "html_tags", "domains", "link_type"}

\* C30: apply leaves its argument unchanged: no step of apply, in series or
\* in parallel, whether apply returns or raises, changes the input mapping:
\* its records, their fields and the values of these stay as they were, and
\* no annotation field is added to an input record.
C30_ApplyLeavesInputs ==
    [][inputs' = inputs]_vars

\* the input records carry no annotation field
InputsNotAnnotated ==
    \A i \in 1..Len(inputs) : DOMAIN inputs[i] \cap AnnotationFields = {}

\* apply has returned in series the flattened and annotated segments of the
\* records, whose contents changed; the input records have none of the
\* fields added
C30_Witness ==
    /\ pc = "returned"
    /\ ~transformer.parallelism
    /\ transformer.flatten
    /\ transformer.annotations # <<>>
    /\ result # <<>>
    /\ \A k \in 1..Len(result) : AnnotationFields \ {"link_type"} \subseteq DOMAIN result[k]
    /\ \E i \in 1..Len(inputs) : \A k \in 1..Len(result) :
           result[k]["content"] # inputs[i]["content"]
    /\ InputsNotAnnotated
\* ------------------------------------------------------------------------
\* Properties of the record functions (checked under SpecRecords)
\* ------------------------------------------------------------------------

CallsOf(fn) == {c \in 1..Len(calls) : calls[c].fn = fn}

\* the decimal numeral of the ints the drawn dicts hold, written out
Decimal(n) ==
    CASE n = 0 -> <<"0">> [] n = 1 -> <<"1">> [] n = 2 -> <<"2">>
      [] n = 3 -> <<"3">> [] n = 4 -> <<"4">> [] n = 5 -> <<"5">>
      [] n = 12 -> <<"1", "2">>

\* how many segments the content of d holds
SegmentCount(d) ==
    IF d["content"].kind = "list" THEN Len(d["content"].v) ELSE Len(d["content"].v[1])

\* how many records the parents before the p-th flatten to
RECURSIVE Offset(_, _)
Offset(parents, p) ==
    IF p = 1 THEN 0 ELSE Offset(parents, p - 1) + SegmentCount(parents[p - 1])

\* the parents whose content is a list of segments
ListParents(parents) ==
    {p \in 1..Len(parents) : parents[p]["content"].kind = "list"}

\* the k-th record of flat is the child of parent for its k-th segment
IsChild(child, parent, k) ==
    /\ DOMAIN child = DOMAIN parent \cup {"sub_id"}
    /\ child["content"] = Str(parent["content"].v[k])
    /\ child["sub_id"] = k - 1
    /\ \A key \in DOMAIN parent \ {"content", "sub_id"} : child[key] = parent[key]

\* C4: a record with N segments flattens to exactly N records, in segment
\* order, the k-th (from zero) holding the k-th segment as content, k as
\* sub_id and the parent's other fields; re-keyed, the children of a parent
\* are found under "{id}-{k}", those of a parent with id 0 and three
\* segments under "0-0", "0-1" and "0-2".
C4_FlattenOnePerSegment ==
    \A c \in CallsOf("_flatten_text_dicts") :
        LET parents == calls[c].arg
            flat == calls[c].ret
        IN  /\ Len(flat) = Offset(parents, Len(parents) + 1)
            /\ \A p \in ListParents(parents) :
                  \A k \in 1..Len(parents[p]["content"].v) :
                      IsChild(flat[Offset(parents, p) + k], parents[p], k)
            /\ \A r \in CallsOf("convert_list_of_dicts_to_dict_of_dicts") :
                  (r = c + 1 /\ calls[r].arg = flat) =>
                      \A p \in ListParents(parents) :
                          \A k \in 1..Len(parents[p]["content"].v) :
                              LET key == StrKey(Decimal(parents[p]["id"]) \o <<"-">>
                                                    \o Decimal(k - 1))
                              IN  /\ key \in DOMAIN calls[r].ret.value
                                  /\ (\A q \in 1..Len(parents) :
                                         q # p => parents[q]["id"] # parents[p]["id"])
                                       => calls[r].ret.value[key]
                                              = flat[Offset(parents, p) + k]
                                  /\ (parents[p]["id"] = 0 /\ k = 3) =>
                                        {StrKey(<<"0", "-", "0">>),
                                         StrKey(<<"0", "-", "1">>),
                                         StrKey(<<"0", "-", "2">>)}
                                            \subseteq DOMAIN calls[r].ret.value

\* a parent with id 0 and three segments, after another parent, has been
\* flattened and the flat list re-keyed
C4_Witness ==
    /\ Len(calls) = 2
    /\ calls[1].fn = "_flatten_text_dicts"
    /\ calls[2].fn = "convert_list_of_dicts_to_dict_of_dicts"
    /\ Len(calls[1].arg) = 2
    /\ calls[1].arg[1]["id"] = 1
    /\ calls[1].arg[2]["id"] = 0
    /\ calls[1].arg[2]["content"] = List(Segments(3))
    /\ "url" \in DOMAIN calls[1].arg[2]
    /\ StrKey(<<"0", "-", "2">>) \in DOMAIN calls[2].ret.value

\* C5: get_id returns the id, or the entity_id when there is no id; with a
\* sub_id it returns the str "{id}-{sub_id}" built from that same id value.
C5_GetId ==
    \A c \in CallsOf("get_id") :
        LET d == calls[c].arg IN
        ("id" \in DOMAIN d \/ "entity_id" \in DOMAIN d) =>
            LET id_value == IF "id" \in DOMAIN d THEN d["id"] ELSE d["entity_id"] IN
            calls[c].ret =
                IF "sub_id" \in DOMAIN d
                THEN StrKey(Decimal(id_value) \o <<"-">> \o Decimal(d["sub_id"]))
                ELSE IntKey(id_value)

\* get_id has been called on a dict with an id, a different entity_id and a
\* sub_id
C5_Witness ==
    /\ calls # <<>>
    /\ calls[1].fn = "get_id"
    /\ DOMAIN calls[1].arg = {"id", "entity_id", "sub_id"}
    /\ calls[1].arg["id"] = 1 /\ calls[1].arg["entity_id"] = 2
    /\ calls[1].arg["sub_id"] = 12
    /\ calls[1].ret = StrKey(<<"1", "-", "1", "2">>)

\* ------------------------------------------------------------------------
\* Properties of the normalizer (checked under SpecText)
\* ------------------------------------------------------------------------

Normalizer == "regex_out_punctuation_and_white_space"

NormalizerCalls == {i \in 1..Len(calls) : calls[i].fn = Normalizer}

\* C8: the normalizer is idempotent: applied to its own result it returns
\* that result unchanged (the drawn texts hold no HTML tag).
C8_NormalizerIdempotent ==
    \A i \in NormalizerCalls :
        (i + 1 \in NormalizerCalls /\ calls[i + 1].arg = calls[i].ret)
            => calls[i + 1].ret = calls[i].ret

Marks == {".", "?", "!"}
RunChars == {".", " ", "\n"}

\* the run of RunChars that follows position i of s
RunAfter(s, i) ==
    SubSeq(s, i + 1, i + RunLen(SubSeq(s, i + 1, Len(s)), RunChars))

\* p ends in a mark followed by nothing but RunChars: what follows p
\* lies in that mark's run
EndsInMarkRun(p) ==
    \E k \in 1..Len(p) :
        p[k] \in Marks /\ \A j \in (k + 1)..Len(p) : p[j] \in RunChars

\* position i of s holds a mark that is not a period inside an earlier
\* mark's run, followed by a run of two or more RunChars holding a newline
NewlineRunAt(s, i) ==
    /\ s[i] \in Marks
    /\ ~(s[i] = "." /\ EndsInMarkRun(SubSeq(s, 1, i - 1)))
    /\ Len(RunAfter(s, i)) >= 2
    /\ \E j \in 1..Len(RunAfter(s, i)) : RunAfter(s, i)[j] = "\n"

\* s with the mark at i and its run replaced by the mark, one space and one
\* newline; the text before it and the text after it normalized on their own
Collapsed(s, i) ==
    regex_out_punctuation_and_white_space(SubSeq(s, 1, i - 1))
        \o <<s[i], " ", "\n">>
        \o regex_out_substitutions(
               SubSeq(s, i + 1 + Len(RunAfter(s, i)), Len(s)))

\* the period at i is the first non-whitespace character of s
LeadingPeriod(s, i) == s[i] = "." /\ lstrip(SubSeq(s, 1, i - 1)) = <<>>

\* the mark at i is a '?' whose run is exactly a period and a newline
QuestionPeriodNewline(s, i) == s[i] = "?" /\ RunAfter(s, i) = <<".", "\n">>

\* C9 as stated: wherever a mark is followed by a run of two or more
\* RunChars that holds a newline, mark and run become the mark, one space
\* and one newline.
C9_NewlineRunCollapsedEverywhere ==
    \A c \in NormalizerCalls : \A i \in 1..Len(calls[c].arg) :
        NewlineRunAt(calls[c].arg, i) => calls[c].ret = Collapsed(calls[c].arg, i)

\* C9 as amended: the same, except for a period that is the first
\* non-whitespace character of the text (it is removed with its run) and
\* for a '?' followed by exactly a period and a newline (the period is
\* deleted first and the newline alone is no run of two).
C9_NewlineRunCollapsed ==
    \A c \in NormalizerCalls : \A i \in 1..Len(calls[c].arg) :
        ( /\ NewlineRunAt(calls[c].arg, i)
          /\ ~LeadingPeriod(calls[c].arg, i)
          /\ ~QuestionPeriodNewline(calls[c].arg, i) )
            => calls[c].ret = Collapsed(calls[c].arg, i)

\* "text text..\n. text" has been normalized, to "text text. \ntext"
C9_Witness ==
    /\ calls # <<>>
    /\ calls[1].fn = Normalizer
    /\ calls[1].arg = <<"t","e","x","t"," ","t","e","x","t",".",".","\n","."," ","t","e","x","t">>
    /\ calls[1].ret = <<"t","e","x","t"," ","t","e","x","t","."," ","\n","t","e","x","t">>

\* s is already clean: no leading whitespace or period, no "?.", no two
\* consecutive spaces, no mark followed by two or more RunChars
Clean(s) ==
    /\ s = <<>> \/ (s[1] \notin Whitespace /\ s[1] # ".")
    /\ ~Contains(s, <<"?", ".">>)
    /\ ~Contains(s, <<" ", " ">>)
    /\ \A i \in 1..Len(s) : s[i] \in Marks => Len(RunAfter(s, i)) < 2

\* C10: the normalizer returns an already clean text unchanged.
C10_CleanTextUnchanged ==
    \A c \in NormalizerCalls : Clean(calls[c].arg) => calls[c].ret = calls[c].arg

\* "text. text", which is clean, has been normalized
C10_Witness ==
    /\ calls # <<>>
    /\ calls[1].fn = Normalizer
    /\ calls[1].arg = <<"t","e","x","t","."," ","t","e","x","t">>
    /\ Clean(calls[1].arg)

\* C26: the output of regex_out_punctuation_and_white_space holds no period
\* that is followed at once by another period.
C26_NoConsecutivePeriods ==
    \A c \in NormalizerCalls :
        \A i \in 1..(Len(calls[c].ret) - 1) :
            ~(calls[c].ret[i] = "." /\ calls[c].ret[i + 1] = ".")

\* three periods or more, as in the test "text text...", leave one
RunsOfThreePeriodsCollapsed ==
    \A c \in NormalizerCalls :
        calls[c].arg = <<"t","e","x","t"," ","t","e","x","t",".",".",".">>
            => calls[c].ret = <<"t","e","x","t"," ","t","e","x","t","."," ">>
\* ------------------------------------------------------------------------
\* Properties of the line-break condensation (checked under SpecMarkup)
\* ------------------------------------------------------------------------

LineBreaks == {"<br>", "<br/>"}
Gap == {" ", "\n"}

\* s with every <br> and <br/> rewritten to a newline
BreaksRewritten(s) ==
    [i \in 1..Len(s) |-> IF s[i] \in LineBreaks THEN "\n" ELSE s[i]]

\* the first and the last position of the maximal run of Gap characters
\* that the Gap character at position i of s lies in
RunStart(s, i) ==
    CHOOSE a \in 1..i :
        (\A j \in a..i : s[j] \in Gap) /\ (a = 1 \/ s[a - 1] \notin Gap)

RunEnd(s, i) ==
    CHOOSE b \in i..Len(s) :
        (\A j \in i..b : s[j] \in Gap) /\ (b = Len(s) \/ s[b + 1] \notin Gap)

\* what position i of s leaves when every maximal run of two or more Gap
\* characters is replaced by one space and one newline
Contribution(s, i) ==
    IF s[i] \notin Gap \/ RunStart(s, i) = RunEnd(s, i) THEN <<s[i]>>
    ELSE IF i = RunStart(s, i) THEN <<" ", "\n">>
    ELSE <<>>

RECURSIVE Concat(_)
Concat(seqs) == IF seqs = <<>> THEN <<>> ELSE seqs[1] \o Concat(Tail(seqs))

RunsCondensed(s) == Concat([i \in 1..Len(s) |-> Contribution(s, i)])

\* s without the spaces that follow a space
SpacesCollapsed(s) ==
    Concat([i \in 1..Len(s) |->
               IF s[i] = " " /\ i > 1 /\ s[i - 1] = " " THEN <<>> ELSE <<s[i]>>])

\* s without the whitespace at its two ends
Stripped(s) ==
    LET inner == {i \in 1..Len(s) : s[i] \notin Whitespace} IN
    IF inner = {} THEN <<>>
    ELSE SubSeq(s, CHOOSE a \in inner : \A i \in inner : a <= i,
                   CHOOSE b \in inner : \A i \in inner : i <= b)

CondenseCalls == {c \in 1..Len(calls) : calls[c].fn = "condense_line_breaks"}

\* the examples: "text<br><br>text" and "text\n\ntext" become "text \ntext",
\* "text<br/>text" becomes "text\ntext"
CondenseExamples ==
    \A c \in CondenseCalls :
        /\ calls[c].arg \in {<<"t","e","x","t","<br>","<br>","t","e","x","t">>,
                             <<"t","e","x","t","\n","\n","t","e","x","t">>}
               => calls[c].ret = <<"t","e","x","t"," ","\n","t","e","x","t">>
        /\ calls[c].arg = <<"t","e","x","t","<br/>","t","e","x","t">>
               => calls[c].ret = <<"t","e","x","t","\n","t","e","x","t">>

\* C11 as stated: condense_line_breaks rewrites every <br> and <br/> of the
\* text to a newline and then replaces every maximal run of two or more
\* spaces and newlines by one space and one newline, a lone newline staying.
C11_CondenseRewritesRunsOfText ==
    /\ CondenseExamples
    /\ \A c \in CondenseCalls :
           calls[c].ret = RunsCondensed(BreaksRewritten(calls[c].arg))

\* C11 as amended: condense_line_breaks first collapses every run of spaces
\* to one space and strips the whitespace at both ends; in what is left it
\* rewrites every <br> and <br/> to a newline and then replaces every
\* maximal run of two or more spaces and newlines by one space and one
\* newline, a lone newline staying.
C11_CondenseRewritesRuns ==
    /\ CondenseExamples
    /\ \A c \in CondenseCalls :
           calls[c].ret =
               RunsCondensed(BreaksRewritten(Stripped(SpacesCollapsed(calls[c].arg))))

\* "text<br><br>text" has been condensed to "text \ntext"
C11_Witness ==
    /\ calls # <<>>
    /\ calls[1].fn = "condense_line_breaks"
    /\ calls[1].arg = <<"t","e","x","t","<br>","<br>","t","e","x","t">>
    /\ calls[1].ret = <<"t","e","x","t"," ","\n","t","e","x","t">>

\* s neither begins nor ends with a space or a newline
NoGapAtStart(s) == s = <<>> \/ s[1] \notin Gap
NoGapAtEnd(s) == s = <<>> \/ s[Len(s)] \notin Gap

\* C27 as stated: the output of condense_line_breaks has no leading and no
\* trailing space or newline, for every input.
C27_CondenseStripsResult ==
    \A c \in CondenseCalls : NoGapAtStart(calls[c].ret) /\ NoGapAtEnd(calls[c].ret)

\* C27 as amended: condense_line_breaks strips its input: the output has no
\* leading space or newline unless the first element of the input after its
\* leading whitespace is a <br> or <br/>, and no trailing one unless the
\* last element before its trailing whitespace is; such a <br> is rewritten
\* after the strip and leaves a newline there ("text\n" gives "text",
\* "a<br>" gives "a\n").
C27_CondenseStripsInput ==
    \A c \in CondenseCalls : LET s == Stripped(calls[c].arg) IN
        /\ (s = <<>> \/ s[1] \notin LineBreaks) => NoGapAtStart(calls[c].ret)
        /\ (s = <<>> \/ s[Len(s)] \notin LineBreaks) => NoGapAtEnd(calls[c].ret)
        /\ (s # <<>> /\ s[1] \in LineBreaks) => ~NoGapAtStart(calls[c].ret)
        /\ (s # <<>> /\ s[Len(s)] \in LineBreaks)
               => calls[c].ret[Len(calls[c].ret)] = "\n"
        /\ calls[c].arg = <<"t","e","x","t","\n">> => calls[c].ret = <<"t","e","x","t">>

\* "text\n" has been condensed to "text"
C27_Witness ==
    /\ calls # <<>>
    /\ calls[1].fn = "condense_line_breaks"
    /\ calls[1].arg = <<"t","e","x","t","\n">>
    /\ calls[1].ret = <<"t","e","x","t">>
\* ------------------------------------------------------------------------
\* Properties of the reducers (checked under SpecMarkup)
\* ------------------------------------------------------------------------

HeadingNames == {"h1", "h2", "h3", "h4"}

\* x is <h>T</h> for a heading h
IsHeadingAround(x, T) ==
    \E h \in HeadingNames : x = <<"<" \o h \o ">">> \o T \o <<"</" \o h \o ">">>

\* T is a text the cleanup leaves alone: not empty, no whitespace at either
\* end, no newline in it, and clean for the normalizer
PlainClean(T) ==
    /\ T # <<>>
    /\ T[1] \notin Whitespace /\ T[Len(T)] \notin Whitespace
    /\ \A i \in 1..Len(T) : T[i] # "\n"
    /\ Clean(T)

\* no element of s is a tag
NoMarkup(s) ==
    \A i \in 1..Len(s) :
        s[i] \notin {"<" \o h \o ">" : h \in TagNames} \cup {"</" \o h \o ">" : h \in TagNames}

ToTextCalls == {c \in 1..Len(calls) : calls[c].fn = "_to_text"}

\* what x holds between its first n and its last n elements
Within(x, n) == SubSeq(x, n + 1, Len(x) - n)

EndsInOneMark(T) ==
    T[Len(T)] \in Marks /\ (Len(T) = 1 \/ T[Len(T) - 1] \notin Marks)

ToLimitedHtmlCalls == {c \in 1..Len(calls) : calls[c].fn = "_to_limited_html"}

\* x is <w><h1>T</h1></w>, the heading with or without an attribute, for a
\* wrapper w that is in no keep set and has no replacement entry
IsWrappedHeading(x, T) ==
    \E w \in {"div", "em"} : \E open \in {"<h1>", "<h1 class=c>"} :
        x = <<"<" \o w \o ">", open>> \o T \o <<"</h1>", "</" \o w \o ">">>

AnnotationCalls(f) == {c \in 1..Len(calls) : calls[c].fn = f}

\* the registrable domain of the drawn urls, written out
RegistrableDomain(url) ==
    CASE url = <<"http://d1.com/page">> -> <<"d", "1">>
      [] url = <<"http://www.d2.org/page">> -> <<"d", "2">>
      [] url = <<"/local.html">> -> <<>>

\* C15: for a record with a url (and domains), the link annotation sets
\* link_type to a sequence as long as domains whose i-th entry is "internal"
\* if domains[i] is 'NA' or the registrable domain of the url, "external"
\* otherwise; the other fields stay.
C15_LinkTypePerDomain ==
    \A c \in AnnotationCalls("_annotate_internal_external_links") :
        LET d == calls[c].arg IN
        ("url" \in DOMAIN d /\ "domains" \in DOMAIN d) =>
            /\ calls[c].ret.raised = ""
            /\ LET out == calls[c].ret.value IN
               /\ DOMAIN out = DOMAIN d \cup {"link_type"}
               /\ \A key \in DOMAIN d \ {"link_type"} : out[key] = d[key]
               /\ Len(out["link_type"]) = Len(d["domains"])
               /\ \A i \in 1..Len(d["domains"]) :
                      out["link_type"][i] =
                          IF \/ d["domains"][i] = <<"N", "A">>
                             \/ d["domains"][i] = RegistrableDomain(d["url"])
                          THEN "internal" ELSE "external"

\* the links of a record of d1.com to d2, to a file and to d1 have been
\* typed external, internal, internal
C15_Witness ==
    /\ calls # <<>>
    /\ calls[Len(calls)].fn = "_annotate_internal_external_links"
    /\ {"url", "domains"} \subseteq DOMAIN calls[Len(calls)].arg
    /\ calls[Len(calls)].arg["url"] = <<"http://d1.com/page">>
    /\ calls[Len(calls)].arg["domains"] = <<(<<"d", "2">>), (<<"N", "A">>), (<<"d", "1">>)>>
    /\ calls[Len(calls)].ret.value["link_type"] = <<"external", "internal", "internal">>

\* the tracked tag names, in the order of the code's table, and their markers
TrackedTags == <<"h1", "h2", "h3", "h4", "a", "li", "tr">>

MarkerOf(tag) ==
    CASE tag = "h1" -> "thisisah1tag" [] tag = "h2" -> "thisisah2tag"
      [] tag = "h3" -> "thisisah3tag" [] tag = "h4" -> "thisisah4tag"
      [] tag = "a" -> "thisisalinktag" [] tag = "li" -> "thisisalistitemtag"
      [] tag = "tr" -> "thisisatablerowtag"

HeadingMarkers == {"thisisah1tag", "thisisah2tag", "thisisah3tag", "thisisah4tag"}

\* the str content of a record
ContentOf(d) == d["content"].v[1]

OccursIn(c, tag) == \E i \in 1..Len(c) : c[i] = MarkerOf(tag)

FirstPosition(c, tag) ==
    CHOOSE i \in 1..Len(c) : c[i] = MarkerOf(tag) /\ \A j \in 1..(i - 1) : c[j] # MarkerOf(tag)

\* position i of c follows a link marker with neither a space nor a heading
\* marker in between: it is deleted as part of that link's domain
AfterLink(c, i) ==
    \E j \in 1..(i - 1) :
        /\ c[j] = "thisisalinktag"
        /\ \A k \in j..i : c[k] \notin {" "} \cup HeadingMarkers

\* the marker of tag is there when its turn comes
Listed(c, tag) ==
    IF tag \in {"li", "tr"}
    THEN \E i \in 1..Len(c) : c[i] = MarkerOf(tag) /\ ~AfterLink(c, i)
    ELSE OccursIn(c, tag)

\* C16 as stated: html_tags holds the tag names of exactly the tracked
\* markers that occur in content, each once, in the order in which the
\* markers are first encountered in content.
C16_HtmlTagsInOrderOfOccurrence ==
    \A c \in AnnotationCalls("_annotate_and_clean_html") :
        LET content == ContentOf(calls[c].arg)
            tags == calls[c].ret.value["html_tags"]
        IN  /\ {tags[a] : a \in 1..Len(tags)}
                   = {TrackedTags[k] : k \in {n \in 1..7 : OccursIn(content, TrackedTags[n])}}
            /\ \A a, b \in 1..Len(tags) :
                   a < b => /\ tags[a] # tags[b]
                            /\ FirstPosition(content, tags[a]) < FirstPosition(content, tags[b])

\* C16 as amended: html_tags holds the tag names of the tracked markers that
\* occur in content, each once however often its marker occurs, in the fixed
\* order h1, h2, h3, h4, a, li, tr whatever their order in content; li or tr
\* is left out when each of its markers follows a link marker with neither a
\* space nor a heading marker in between.
C16_HtmlTagsInTableOrder ==
    \A c \in AnnotationCalls("_annotate_and_clean_html") :
        LET content == ContentOf(calls[c].arg) IN
        calls[c].ret.value["html_tags"]
            = SelectSeq(TrackedTags, LAMBDA tag : Listed(content, tag))

\* a content with the marker of h2 before two markers of h1 and that of li
\* has been annotated: h1, h2, li
C16_Witness ==
    /\ calls # <<>>
    /\ calls[1].fn = "_annotate_and_clean_html"
    /\ \E i, j, k \in 1..Len(ContentOf(calls[1].arg)) :
           /\ i < j /\ j < k
           /\ ContentOf(calls[1].arg)[i] = "thisisah2tag"
           /\ ContentOf(calls[1].arg)[j] = "thisisah1tag"
           /\ ContentOf(calls[1].arg)[k] = "thisisah1tag"
    /\ OccursIn(ContentOf(calls[1].arg), "li")
    /\ calls[1].ret.value["html_tags"] = <<"h1", "h2", "h3", "h4", "li", "tr">>

AllMarkers == {MarkerOf(TrackedTags[k]) : k \in 1..7}

\* the last position of the text that follows the link marker at position i
\* of c up to the next character of delimiters
DomainEnd(c, i, delimiters) ==
    CHOOSE e \in i..Len(c) :
        /\ \A k \in (i + 1)..e : c[k] \notin delimiters
        /\ e = Len(c) \/ c[e + 1] \in delimiters

DomainAt(c, i, delimiters) == SubSeq(c, i + 1, DomainEnd(c, i, delimiters))

\* every link marker of c starts a whitespace-delimited token whose rest,
\* the domain, holds no marker
LinksAreTokens(c) ==
    \A i \in 1..Len(c) :
        c[i] = "thisisalinktag" =>
            /\ i = 1 \/ c[i - 1] \in Whitespace
            /\ \A k \in 1..Len(DomainAt(c, i, Whitespace)) :
                   DomainAt(c, i, Whitespace)[k] \notin AllMarkers

\* every such token is followed by a space or is the end of c
LinksEndAtSpace(c) ==
    \A i \in 1..Len(c) :
        c[i] = "thisisalinktag" =>
            \/ DomainEnd(c, i, Whitespace) = Len(c)
            \/ c[DomainEnd(c, i, Whitespace) + 1] = " "

\* the domains that follow the link markers of c, from left to right
DomainsOf(c) ==
    Concat([i \in 1..Len(c) |->
               IF c[i] = "thisisalinktag" THEN <<DomainAt(c, i, Whitespace)>> ELSE <<>>])

\* C17 as stated: when every link marker and its domain form one
\* whitespace-delimited token, domains is the sequence of those domains from
\* left to right, one per link marker.
C17_DomainsOfWhitespaceTokens ==
    \A c \in AnnotationCalls("_annotate_and_clean_html") :
        LinksAreTokens(ContentOf(calls[c].arg)) =>
            calls[c].ret.value["domains"] = DomainsOf(ContentOf(calls[c].arg))

\* C17 as amended: the same when each such token is followed by a space or
\* ends the content; the tokens are split at spaces only.
C17_DomainsOfSpaceTokens ==
    \A c \in AnnotationCalls("_annotate_and_clean_html") :
        (LinksAreTokens(ContentOf(calls[c].arg)) /\ LinksEndAtSpace(ContentOf(calls[c].arg))) =>
            calls[c].ret.value["domains"] = DomainsOf(ContentOf(calls[c].arg))

\* a content with links to d1, to a file and to d2 has been annotated
C17_Witness ==
    /\ calls # <<>>
    /\ calls[1].fn = "_annotate_and_clean_html"
    /\ LinksAreTokens(ContentOf(calls[1].arg))
    /\ LinksEndAtSpace(ContentOf(calls[1].arg))
    /\ calls[1].ret.value["domains"] = <<(<<"d", "1">>), (<<"N", "A">>), (<<"d", "2">>)>>

\* ------------------------------------------------------------------------
\* Properties of the paragraph segmenter (checked under SpecMarkup)
\* ------------------------------------------------------------------------

ParagraphCalls == {c \in 1..Len(calls) : calls[c].fn = "_to_paragraphs"}

\* the segments with a newline between each two of them
JoinedByNewline(segments) ==
    Concat([k \in 1..Len(segments) |->
               IF k = 1 THEN segments[k] ELSE <<"\n">> \o segments[k]])

\* segments are the pieces of s between its newlines, the empty ones too
SplitAtNewlines(segments, s) ==
    /\ segments # <<>>
    /\ JoinedByNewline(segments) = s
    /\ \A k \in 1..Len(segments) : \A i \in 1..Len(segments[k]) : segments[k][i] # "\n"

\* the segments are those of the condensed text
ParagraphsOfCondensed(c) ==
    SplitAtNewlines(calls[c].ret,
        RunsCondensed(BreaksRewritten(Stripped(SpacesCollapsed(calls[c].arg)))))

\* the last segment returned
LastSegment(c) == calls[c].ret[Len(calls[c].ret)]

\* x ends in a newline character that follows some text
EndsInNewlineAfterText(x) ==
    /\ x # <<>> /\ x[Len(x)] = "\n"
    /\ Stripped(x) # <<>>
    /\ Stripped(x)[Len(Stripped(x))] \notin LineBreaks

\* C21 as stated: _to_paragraphs condenses the line breaks and splits at
\* every newline, keeping the empty segments; an input that ends in a
\* newline yields an empty last segment.
C21_TrailingNewlineGivesEmptySegment ==
    \A c \in ParagraphCalls :
        /\ ParagraphsOfCondensed(c)
        /\ (calls[c].arg # <<>> /\ calls[c].arg[Len(calls[c].arg)] = "\n")
               => LastSegment(c) = <<>>

\* C21 as amended: _to_paragraphs condenses the line breaks and splits at
\* every newline, keeping the empty segments; an input that ends in a <br>
\* or <br/> yields an empty last segment, and a newline character at the end
\* of an input, after text, is stripped by the condensation and yields none.
C21_TrailingBreakGivesEmptySegment ==
    \A c \in ParagraphCalls :
        /\ ParagraphsOfCondensed(c)
        /\ (calls[c].arg # <<>> /\ calls[c].arg[Len(calls[c].arg)] \in LineBreaks)
               => LastSegment(c) = <<>>
        /\ EndsInNewlineAfterText(calls[c].arg) => LastSegment(c) # <<>>

\* "a\na<br>" has been split into "a", "a" and ""
C21_Witness ==
    /\ calls # <<>>
    /\ calls[1].fn = "_to_paragraphs"
    /\ calls[1].arg = <<"a", "\n", "a", "<br>">>
    /\ calls[1].ret = <<<<"a">>, <<"a">>, <<>>>>

\* ------------------------------------------------------------------------
\* Properties of replace_html (checked under SpecMarkup)
\* ------------------------------------------------------------------------

ReplaceHtmlCalls == {c \in 1..Len(calls) : calls[c].fn = "replace_html"}

\* the bucket of a tag name
Bucket(name, args) ==
    IF name \in args.tags_to_keep_with_attr THEN "keep_with_attr"
    ELSE IF name \in args.tags_to_keep THEN "keep"
    ELSE "replace"

\* a tag as it is written, with its attributes and without them
Written(node) ==
    IF node.type = "end" THEN "</" \o node.name \o ">"
    ELSE IF \E tok \in DOMAIN TagsWithAttrs : TagsWithAttrs[tok] = node
    THEN CHOOSE tok \in DOMAIN TagsWithAttrs : TagsWithAttrs[tok] = node
    ELSE "<" \o node.name \o ">"

WrittenBare(node) ==
    IF node.type = "end" THEN "</" \o node.name \o ">" ELSE "<" \o node.name \o ">"

\* the strings that stand for a replaced tag: those of its entry, nothing
\* without an entry
Replacement(node, args) ==
    IF node.name \notin DOMAIN args.tags_to_replace_with_str THEN <<>>
    ELSE LET r == args.tags_to_replace_with_str[node.name] IN
         CASE node.type = "start" -> r[1]
           [] node.type = "end" -> r[2]
           [] node.type = "void" -> r[1] \o r[2]

\* what a node of the tree leaves in the text
LeftOf(node, args) ==
    IF node.type \notin {"start", "end", "void"} THEN <<node.s>>
    ELSE CASE Bucket(node.name, args) = "keep_with_attr" -> <<Written(node)>>
           [] Bucket(node.name, args) = "keep" -> <<WrittenBare(node)>>
           [] Bucket(node.name, args) = "replace" -> Replacement(node, args)

\* every way a tag is written, and the ways the tags named in names are
AllTagsWritten ==
    DOMAIN TagsWithAttrs \cup {"<br>", "<br/>"}
        \cup {"<" \o n \o ">" : n \in TagNames} \cup {"</" \o n \o ">" : n \in TagNames}

TagsWritten(names) ==
    {tok \in DOMAIN TagsWithAttrs : TagsWithAttrs[tok].name \in names}
        \cup {"<" \o n \o ">" : n \in names} \cup {"</" \o n \o ">" : n \in names}

\* the strings of the tree: the text between the tags and the raw text of a
\* style or script element, which is no tag whatever it spells
StringsOf(soup) ==
    {soup[j].s : j \in {k \in 1..Len(soup) : soup[k].type \notin {"start", "end", "void"}}}

\* C23: replace_html treats every tag of the tree by the first of three
\* buckets it falls in: kept with its attributes, kept without them,
\* replaced by the strings of its entry; a tag in neither keep set and
\* without an entry is removed, its contents kept and nothing inserted; no
\* tag outside the two keep sets is left: what is written as a tag in the
\* result and is no string of the tree is a tag of the keep sets.
C23_EveryTagInOneBucket ==
    \A c \in ReplaceHtmlCalls :
        /\ calls[c].ret =
               Concat([i \in 1..Len(calls[c].soup) |->
                          LeftOf(calls[c].soup[i], calls[c].args)])
        /\ \A i \in 1..Len(calls[c].ret) :
               (calls[c].ret[i] \in AllTagsWritten
                   /\ calls[c].ret[i] \notin StringsOf(calls[c].soup)) =>
                   calls[c].ret[i] \in TagsWritten(calls[c].args.tags_to_keep
                                                   \cup calls[c].args.tags_to_keep_with_attr)

\* <em><h1 class=c>a has gone through replace_html with h1 in both keep
\* sets: the em is gone, the heading has its attribute, the text is there
C23_Witness ==
    /\ calls # <<>>
    /\ calls[1].fn = "replace_html"
    /\ calls[1].arg = <<"<em>", "<h1 class=c>", "a">>
    /\ calls[1].args.tags_to_keep_with_attr = {"h1"}
    /\ calls[1].ret = <<"<h1 class=c>", "a", "</h1>">>

\* ------------------------------------------------------------------------
\* Properties of the removal of style and script (checked under SpecMarkup)
\* ------------------------------------------------------------------------

Reducers == {"_to_text", "_to_limited_html", "_to_limited_html_plain_text"}

ReducerCalls == {c \in 1..Len(calls) : calls[c].fn \in Reducers}

\* the letters of the documents
Letters == {"a", "b"}

\* the style or script element that is open after the first i elements of
\* x, "" for none: it opens at its start tag when none is open, and closes
\* at the first end tag of its name
RECURSIVE RawOpen(_, _)
RawOpen(x, i) ==
    IF i = 0 THEN ""
    ELSE LET before == RawOpen(x, i - 1) IN
         IF before = ""
         THEN CASE x[i] = "<script>" -> "script"
                [] x[i] = "<style>" -> "style"
                [] OTHER -> ""
         ELSE IF x[i] = "</" \o before \o ">" THEN "" ELSE before

\* the letters of s, in order
LettersOf(s) ==
    Concat([i \in 1..Len(s) |-> IF s[i] \in Letters THEN <<s[i]>> ELSE <<>>])

\* the letters of x that lie in no style or script element, in order
LettersOutside(x) ==
    Concat([i \in 1..Len(x) |->
               IF x[i] \in Letters /\ RawOpen(x, i) = "" THEN <<x[i]>> ELSE <<>>])

\* what only the inside of a style or script element can leave in the
\* text: its own tags, and the em that no reducer keeps
LeftFromInside == {"<script>", "</script>", "<style>", "</style>", "<em>", "</em>"}

\* C24: every reducer removes each style and script element with all it
\* holds, at any depth: the letters of its output are those of the input
\* that lie outside these elements, in their order, and nothing that stood
\* inside one is left.
C24_StyleAndScriptRemoved ==
    \A c \in ReducerCalls :
        /\ LettersOf(calls[c].ret) = LettersOutside(calls[c].arg)
        /\ \A i \in 1..Len(calls[c].ret) : calls[c].ret[i] \notin LeftFromInside

\* a script that holds text, in a p in a div, followed by text, has been
\* reduced: the text after it alone is left
C24_Witness ==
    /\ calls # <<>>
    /\ calls[1].fn \in Reducers
    /\ calls[1].arg = <<"<div>", "<p>", "<script>", "a", "</script>", "b">>
    /\ LettersOf(calls[1].ret) = <<"b">>

\* C28: after _annotate_and_clean_html has returned for a record with a str
\* content, the content holds none of the seven markers, however the markers
\* were arranged.
C28_NoMarkerLeftInContent ==
    \A c \in AnnotationCalls("_annotate_and_clean_html") :
        calls[c].ret.raised = "" =>
            \A i \in 1..Len(ContentOf(calls[c].ret.value)) :
                ContentOf(calls[c].ret.value)[i] \notin AllMarkers

\* a content that holds each of the seven markers has been annotated
C28_Witness ==
    /\ calls # <<>>
    /\ calls[1].fn = "_annotate_and_clean_html"
    /\ \A m \in AllMarkers :
           \E i \in 1..Len(ContentOf(calls[1].arg)) : ContentOf(calls[1].arg)[i] = m
    /\ calls[1].ret.raised = ""
    /\ ContentOf(calls[1].ret.value) # <<>>

\* ------------------------------------------------------------------------
\* Properties of the link markers (checked under SpecMarkup)
\* ------------------------------------------------------------------------

WorkerCalls == {c \in 1..Len(calls) : calls[c].fn = "_annotation_worker"}

\* the registrable domain of the link of an anchor tag as written, 'NA' for
\* a file path and for an anchor without href or src
AnchorDomain(tok) ==
    CASE tok = "<a href=http://www.d1.com/x>" -> <<"d", "1">>
      [] tok = "<a title=t href=http://m.d2.org>" -> <<"d", "2">>
      [] tok = "<a href=d1>" -> <<"d", "1">>
      [] tok \in {"<a href=/local.html>", "<a name=n>"} -> <<"N", "A">>

Anchors == {"<a href=http://www.d1.com/x>", "<a title=t href=http://m.d2.org>",
            "<a href=d1>", "<a href=/local.html>", "<a name=n>"}

\* the domains of the anchors of x that lie in no style or script element,
\* in the order of the document
AnchorDomains(x) ==
    Concat([i \in 1..Len(x) |->
               IF x[i] \in Anchors /\ RawOpen(x, i - 1) = ""
               THEN <<AnchorDomain(x[i])>> ELSE <<>>])

\* C29: for a document reduced by _to_limited_html_plain_text, with or
\* without remove_newlines and the normalizer after it, and then annotated,
\* 'domains' is the list of the registrable domains of the anchors of the
\* document outside style and script, in document order, with 'NA' for an
\* anchor without href or src or whose link has no domain.
C29_DomainsRoundTrip ==
    \A c \in WorkerCalls :
        /\ calls[c].ret.raised = ""
        /\ calls[c].ret.value["domains"] = AnchorDomains(calls[c].arg)

\* the document with three links outside a script and one in it has gone
\* through both workers
C29_Witness ==
    /\ calls # <<>>
    /\ calls[1].fn = "_annotation_worker"
    /\ Len(calls[1].arg) > MaxText + 1
    /\ calls[1].self.transforms[1] = "_to_limited_html_plain_text"
    /\ calls[1].ret.value["domains"] = <<<<"d", "1">>, <<"N", "A">>, <<"d", "2">>>>

====
